---- MODULE Spec2Model ----
(***************************************************************************)
(* Multi-process chat relay: the cluster-aware ChatHandler, the Socket.IO  *)
(* server it emits through (with the Redis adapter installed), the Redis   *)
(* pub/sub channels it relays over, and the Message / Chat collections.    *)
(* Every `await` of a handler is one step: the awaited store operation     *)
(* executes and the handler's synchronous continuation runs up to the next *)
(* await.  The durable store, the Redis key store and the pub/sub          *)
(* connection can each be unavailable; an operation awaited on an          *)
(* unavailable service rejects.                                            *)
(***************************************************************************)
EXTENDS Integers, Sequences, FiniteSets, TLC

\* ---- bounds ----
NumProcs == 2      \* server processes
NumConns == 2      \* socket connections ever opened
NumUsers == 3      \* user ids; the last one participates in no chat
NumChats == 2      \* chat ids; the last one names no stored chat
MaxOps   == 2      \* client events accepted over a run
MaxTasks == 1      \* handlers in flight at the same time
MaxReqs  == 2      \* HTTP requests to POST /api/chats over a run

Procs   == 1..NumProcs
Conns   == 1..NumConns
Users   == 1..NumUsers
ChatIds == 1..NumChats
TaskIds == 1..MaxTasks
ReqIds  == 1..MaxReqs

\* the process a connection is load-balanced to
ProcOf(k) == ((k - 1) % NumProcs) + 1

VARIABLES
    conn,       \* socket: [state, userId, rooms, left]
    messages,   \* Message collection, _id = index
    chats,      \* Chat collection
    online,     \* Redis keys user:<u>:chat:<c>:online
    userServer, \* Redis keys user:<u>:server
    userServerTtl, \* remaining lifetime of user:<u>:server, in seconds
    sinceConnect,  \* seconds since the latest connect of each user (capped)
    typing,     \* Redis keys user:<u>:chat:<c>:typing, as remaining lifetime
    sinceTyping,   \* seconds since the latest typing:start of each key (capped)
    up,         \* which of MongoDB, the Redis key store and Redis pub/sub answer
    alive,      \* which processes are running
    outcome,    \* per client event: error reported, failed step, message created,
                \* channel and envelope of its publish
    handshake,  \* per connection: the token its handshake carried
    http,       \* createChat requests: input, position and response
    boot,       \* per process: phase of startServer and what it had connected
    tasks,      \* handlers suspended at an await
    bus,        \* per subscriber: envelopes published on the chat:* channels
    adapterQ,   \* per process: packets broadcast by the Socket.IO Redis adapter
    inbox,      \* per connection: how often each event was received (0 = message:error)
    events,     \* event emitted by the handler of each client event (by arrival number)
    reqs,       \* the client event each arrival number stands for
    wrote,      \* arrival numbers whose durable writes have completed
    recent,     \* Redis sorted sets chat:<c>:messages
    relayed,    \* per process: envelopes its subscriber re-emitted
    dropped,    \* per process: envelopes its subscriber discarded
    ops         \* client events accepted so far

vars == <<conn, messages, chats, online, userServer, userServerTtl,
          sinceConnect, typing, sinceTyping, up, alive, outcome, handshake,
          http, boot, tasks, bus, adapterQ,
          inbox, events, reqs, wrote, recent, relayed, dropped, ops>>

timeVars == <<typing, sinceTyping, userServerTtl, sinceConnect>>
envVars == <<up, alive>>
hostVars == <<handshake, http, boot>>

\* ---- rooms ----
chatRoom(c) == <<"chat", c>>
userRoom(u) == <<"user", u>>

\* ---- Message.status helpers ----
NoDate == 0

HasRecord(status, u) == \E i \in DOMAIN status : status[i].userId = u

FirstOfUser(status, u) ==
    CHOOSE i \in DOMAIN status :
        /\ status[i].userId = u
        /\ \A j \in 1..(i - 1) : status[j].userId # u

FirstUndelivered(status) ==
    CHOOSE i \in DOMAIN status :
        /\ ~status[i].isDelivered
        /\ \A j \in 1..(i - 1) : status[j].isDelivered

FirstUnread(status) ==
    CHOOSE i \in DOMAIN status :
        /\ ~status[i].isRead
        /\ \A j \in 1..(i - 1) : status[j].isRead

\* every entry takes the schema default isSent: true
messageStatus_schemaDefault(participants, userId) ==
    [i \in DOMAIN participants |->
        [userId      |-> participants[i],
         isSent      |-> TRUE,
         isDelivered |-> FALSE,
         isRead      |-> FALSE,
         deliveredAt |-> NoDate,
         readAt      |-> NoDate]]

\* messageStatus of handleNewMessage: one entry per element of chat.participants
messageStatus(participants, userId) ==
    [i \in DOMAIN participants |->
        [userId      |-> participants[i],
         isSent      |-> participants[i] = userId,
         isDelivered |-> FALSE,
         isRead      |-> FALSE,
         deliveredAt |-> NoDate,
         readAt      |-> NoDate]]

\* Message.updateMany of handleJoinChat.  'status.userId': {$ne: userId} on an
\* array field selects the documents in which NO element has that userId; the
\* positional $ is bound by the only non-negated array predicate,
\* 'status.isDelivered': false, to the first undelivered element.
joinMatches(doc, chatId, userId) ==
    /\ doc.chatId = chatId
    /\ ~HasRecord(doc.status, userId)
    /\ \E i \in DOMAIN doc.status : ~doc.status[i].isDelivered

\* $set of the whole element 'status.$': the other fields fall back to defaults
markDelivered_replace(status, at) ==
    [status EXCEPT ![FirstUndelivered(status)] =
        [userId |-> @.userId, isSent |-> FALSE, isDelivered |-> TRUE,
         isRead |-> FALSE, deliveredAt |-> at, readAt |-> NoDate]]

markDelivered(status, at) ==
    [status EXCEPT ![FirstUndelivered(status)] =
        [@ EXCEPT !.isDelivered = TRUE, !.deliveredAt = at]]

updateManyDelivered(msgs, chatId, userId, at) ==
    [m \in DOMAIN msgs |->
        IF joinMatches(msgs[m], chatId, userId)
        THEN [msgs[m] EXCEPT !.status = markDelivered(msgs[m].status, at)]
        ELSE msgs[m]]

\* sets the flag without the date
markReadAt_flagOnly(status, pos, at) ==
    [status EXCEPT ![pos] = [@ EXCEPT !.isRead = TRUE]]

\* Message.findOneAndUpdate of handleMessageRead: {_id, 'status.userId': userId}
markReadAt(status, pos, at) ==
    [status EXCEPT ![pos] = [@ EXCEPT !.isRead = TRUE, !.readAt = at]]

\* 'status.$[].isRead': the all-positional operator in place of status.$
findOneAndUpdateRead_allRecords(msgs, mid, userId, at) ==
    IF mid \in DOMAIN msgs /\ HasRecord(msgs[mid].status, userId)
    THEN [msgs EXCEPT ![mid].status =
              [i \in DOMAIN @ |-> [@[i] EXCEPT !.isRead = TRUE, !.readAt = at]]]
    ELSE msgs

findOneAndUpdateRead(msgs, mid, userId, at) ==
    IF mid \in DOMAIN msgs /\ HasRecord(msgs[mid].status, userId)
    THEN [msgs EXCEPT ![mid].status =
              markReadAt(@, FirstOfUser(@, userId), at)]
    ELSE msgs

\* Message.updateMany of handleBulkMessageRead.  The two array predicates
\* 'status.userId': userId and 'status.isRead': false are matched
\* independently (no $elemMatch); the positional $ is bound by whichever of
\* them the server evaluates last.
bulkMatches(doc, userId) ==
    /\ HasRecord(doc.status, userId)
    /\ \E i \in DOMAIN doc.status : ~doc.status[i].isRead

BulkBinders == {"userId", "isRead"}

bulkPos(status, userId, binder) ==
    IF binder = "userId" THEN FirstOfUser(status, userId)
    ELSE FirstUnread(status)

updateManyRead(msgs, ids, userId, at, binder) ==
    [m \in DOMAIN msgs |->
        IF m \in ids /\ bulkMatches(msgs[m], userId)
        THEN [msgs[m] EXCEPT !.status =
                  markReadAt(@, bulkPos(@, userId, binder), at)]
        ELSE msgs[m]]

\* ---- Redis keys ----
TYPING_EXPIRY == 5
\* RedisUtils.set(`user:${userId}:server`, this.serverId, 3600)
SERVER_EXPIRY == 3600

\* lifetime of a key: Absent, Persist (no expiry) or the seconds that remain
Absent == 0
Persist == 0 - 1

\* the key is written and its lifetime is never set
set_noExpiry(old, expiryInSeconds) == Persist

\* the key is written and a running lifetime is kept (SET ... KEEPTTL)
set_keepTtl(old, expiryInSeconds) ==
    IF old > 0 THEN old
    ELSE IF expiryInSeconds # 0 THEN expiryInSeconds ELSE Persist

\* RedisUtils.set: 'EX' is passed only for a truthy expiryInSeconds
set(old, expiryInSeconds) ==
    IF expiryInSeconds # 0 THEN expiryInSeconds ELSE Persist

\* lifetime of a key after d more seconds
expire(ttl, d) == IF ttl > 0 THEN (IF ttl > d THEN ttl - d ELSE Absent) ELSE ttl

TypingKeys == Users \X ChatIds

\* ---- Socket.IO ----
\* sockets of process p currently in the room
localMembers(p, room) ==
    {k \in Conns : conn[k].state = "open" /\ ProcOf(k) = p /\ room \in conn[k].rooms}

\* local part of io.to(room).emit / socket.to(room).emit on process p
deliverLocal(box, p, room, e, except) ==
    [k \in Conns |->
        IF k \in localMembers(p, room) /\ k # except
        THEN [box[k] EXCEPT ![e] = @ + 1] ELSE box[k]]

\* adapter part: the packet is broadcast to every other process
adapterBroadcast(q, p, e, except) ==
    [r \in Procs |->
        IF r # p THEN Append(q[r], [ev |-> e, except |-> except]) ELSE q[r]]

\* ---- tasks ----
NoTask == [kind |-> "none", conn |-> 0, pc |-> "idle", chat |-> 0,
           mid |-> 0, ids |-> {}, op |-> 0]

HasFree == \E t \in DOMAIN tasks : tasks[t].pc = "idle"

FreeSlot ==
    CHOOSE t \in DOMAIN tasks :
        /\ tasks[t].pc = "idle"
        /\ \A s \in 1..(t - 1) : tasks[s].pc # "idle"

Accept == HasFree /\ ops < MaxOps

\* ---- handshake tokens ----
\* a token is the pair of its kind and of the user id its payload names
NoToken == <<"none", 0>>

\* a token the server signed for user u, and one it did not sign
ValidToken(u) == <<"valid", u>>
ForgedToken(u) == <<"forged", u>>

\* ---- startServer ----
\* a process that has connected to MongoDB and listens
Listening == [phase |-> "listening", store |-> TRUE, bus |-> TRUE,
              subscribed |-> TRUE]

\* node has loaded index.ts and startServer is about to run
Starting == [phase |-> "starting", store |-> FALSE, bus |-> FALSE,
             subscribed |-> FALSE]

\* ---- POST /api/chats ----
\* a user id as a request body may spell it: 24 hex digits in lower case, as
\* ObjectId.toString() prints them ("lower"), or the same digits in upper case
\* ("upper").  A body: whether participants is an array, the ids it names,
\* whether a group chat is asked for and whether a name is given
NoBody == [isArray |-> FALSE, participants |-> <<>>, isGroupChat |-> FALSE,
           name |-> FALSE]

\* before: the chats that existed when the request arrived
NoRequest == [pc |-> "idle", userId |-> 0, body |-> NoBody, all |-> <<>>,
              status |-> 0, chat |-> 0, before |-> {}]

\* ---- the channels of the bus ----
CHANNELS ==
    [MESSAGES |-> "chat:messages", TYPING |-> "chat:typing",
     STATUS |-> "chat:status", USER_EVENTS |-> "chat:user_events"]

\* redisSubscriber.subscribe(...): what a process asks Redis for at startup
subscriptions ==
    {CHANNELS.MESSAGES, CHANNELS.TYPING, CHANNELS.STATUS, CHANNELS.USER_EVENTS}

NoPayload == [userId |-> 0, mid |-> 0, ids |-> {}]

NoEnvelope == [room |-> <<>>, event |-> "none", payload |-> NoPayload,
               serverId |-> 0, timestamp |-> 0]

NoOutcome == [error |-> FALSE, fault |-> "none", mid |-> 0,
              channel |-> "none", envelope |-> NoEnvelope,
              returned |-> "none"]

NoEvent == [name |-> "none", room |-> <<>>, serverId |-> 0, userId |-> 0,
            mid |-> 0, ids |-> {}]

Event(name, room, p, u, mid, ids) ==
    [name |-> name, room |-> room, serverId |-> p, userId |-> u,
     mid |-> mid, ids |-> ids]

\* ---- initial state ----
\* the settings record createChat writes for a participant
userSpecificSetting(u) == [userId |-> u, isMuted |-> FALSE, unreadCount |-> 0]

NoChat ==
    [exists |-> FALSE, participants |-> <<>>, lastMessage |-> 0,
     isGroupChat |-> FALSE, groupAdmins |-> <<>>,
     userSpecificSettings |-> <<>>]

\* the chats below NumChats exist before the run: chats of all users but the
\* last, one-on-one when they have two participants
InitChats ==
    [c \in ChatIds |->
        IF c < NumChats
        THEN [exists |-> TRUE,
              participants |-> [i \in 1..(NumUsers - 1) |-> i],
              lastMessage |-> 0,
              isGroupChat |-> NumUsers - 1 > 2,
              groupAdmins |-> IF NumUsers - 1 > 2 THEN <<1>> ELSE <<>>,
              userSpecificSettings |->
                  [i \in 1..(NumUsers - 1) |-> userSpecificSetting(i)]]
        ELSE NoChat]

\* the durable store outlives the processes: it is empty, or holds one message
\* that user 1 sent to chat 1 before the processes were started
StoredMessage ==
    [chatId |-> 1, senderId |-> 1,
     status |-> messageStatus(InitChats[1].participants, 1)]

\* the processes have started on a store that holds the messages ms and the
\* chats cs
InitOn(ms, cs) ==
    /\ conn = [k \in Conns |->
                  [state |-> "new", userId |-> 0, rooms |-> {}, left |-> {}]]
    /\ messages = ms
    /\ chats = cs
    /\ online = {}
    /\ userServer = [u \in Users |-> 0]
    /\ userServerTtl = [u \in Users |-> Absent]
    /\ sinceConnect = [u \in Users |-> SERVER_EXPIRY]
    /\ typing = [x \in TypingKeys |-> Absent]
    /\ sinceTyping = [x \in TypingKeys |-> TYPING_EXPIRY]
    /\ up = [store |-> TRUE, cache |-> TRUE, bus |-> TRUE]
    /\ alive = [p \in Procs |-> TRUE]
    /\ outcome = [o \in 1..MaxOps |-> NoOutcome]
    /\ handshake = [k \in Conns |-> NoToken]
    /\ http = [r \in ReqIds |-> NoRequest]
    /\ bus = [p \in Procs |-> <<>>]
    /\ adapterQ = [p \in Procs |-> <<>>]
    /\ inbox = [k \in Conns |-> [e \in 0..MaxOps |-> 0]]
    /\ events = [o \in 1..MaxOps |-> NoEvent]
    /\ reqs = [o \in 1..MaxOps |-> NoTask]
    /\ wrote = {}
    /\ recent = [c \in ChatIds |-> IF c = 1 THEN DOMAIN messages ELSE {}]
    /\ relayed = [p \in Procs |-> {}]
    /\ dropped = [p \in Procs |-> {}]
    /\ ops = 0

\* every process has started and listens
Init ==
    /\ \E ms \in {<<>>, <<StoredMessage>>} :
          InitOn(ms, [InitChats EXCEPT ![1].lastMessage = Len(ms)])
    /\ boot = [p \in Procs |-> Listening]
    /\ tasks = [t \in TaskIds |-> NoTask]

\* ---- rejected promises ----
\* the process ends: its sockets close without any handler running and the
\* handlers it had in flight are gone
terminate(cn, p) ==
    /\ conn' = [k \in Conns |->
                   IF ProcOf(k) = p /\ cn[k].state = "open"
                   THEN [cn[k] EXCEPT !.state = "closed", !.rooms = {}]
                   ELSE cn[k]]
    /\ tasks' = [t \in DOMAIN tasks |->
                    IF tasks[t].pc # "idle" /\ ProcOf(tasks[t].conn) = p
                    THEN NoTask ELSE tasks[t]]
    /\ alive' = [alive EXCEPT ![p] = FALSE]

\* ---- handleConnection ----
\* RedisUtils.set is not awaited: when it rejects nobody handles the rejection
handleConnection(k, u) ==
    /\ conn[k].state = "new"
    /\ alive[ProcOf(k)]
    /\ boot[ProcOf(k)].phase = "listening"
    /\ \A j \in 1..(k - 1) : conn[j].state # "new" /\ conn[j].userId <= u
    /\ sinceConnect' = [sinceConnect EXCEPT ![u] = 0]
    /\ LET opened == [conn EXCEPT ![k] =
                         [state |-> "open", userId |-> u,
                          rooms |-> {userRoom(u)}, left |-> {}]]
       IN IF up.cache
          THEN /\ conn' = opened
               /\ userServer' = [userServer EXCEPT ![u] = ProcOf(k)]
               /\ userServerTtl' = [userServerTtl EXCEPT ![u] = set(@, SERVER_EXPIRY)]
               /\ UNCHANGED <<tasks, alive>>
          ELSE /\ UNCHANGED <<userServer, userServerTtl>>
               /\ \/ conn' = opened /\ UNCHANGED <<tasks, alive>>
                  \/ terminate(opened, ProcOf(k))
    /\ UNCHANGED <<messages, chats, online, typing, sinceTyping, up, outcome,
                   bus, adapterQ, inbox, events, wrote, recent, relayed,
                   dropped, reqs, ops>>
    /\ UNCHANGED <<http, boot>>

\* ---- io.use: the handshake middleware ----
\* decodeToken in place of jwt.verify: the signature is not looked at
verifyAccessToken_decodeOnly(token) == token[1] \in {"valid", "forged"}

\* jwt.verify against JWT_ACCESS_SECRET resolves for a token the server signed
verifyAccessToken(token) == token[1] = "valid"

\* next(err) refuses the handshake: no socket is created, no 'connection'
\* event fires, handleConnection does not run
refuse(k) ==
    /\ conn[k].state = "new"
    /\ alive[ProcOf(k)]
    /\ boot[ProcOf(k)].phase = "listening"
    /\ \A j \in 1..(k - 1) : conn[j].state # "new"
    /\ conn' = [conn EXCEPT ![k].state = "refused"]
    /\ UNCHANGED <<messages, chats, online, userServer, userServerTtl,
                   sinceConnect, typing, sinceTyping, up, alive, outcome,
                   tasks, bus, adapterQ, inbox, events, wrote, recent,
                   relayed, dropped, reqs, ops, http, boot>>

use(k, token) ==
    /\ handshake' = [handshake EXCEPT ![k] = token]
    /\ IF token = NoToken
       THEN refuse(k)
       ELSE IF verifyAccessToken(token)
            THEN handleConnection(k, token[2])
            ELSE refuse(k)

\* a client event arrives on an open socket and its handler starts
Start(k, kind, pc, c, mid, ids) ==
    /\ conn[k].state = "open"
    /\ Accept
    /\ LET task == [kind |-> kind, conn |-> k, pc |-> pc, chat |-> c,
                    mid |-> mid, ids |-> ids, op |-> ops + 1]
       IN /\ tasks' = [tasks EXCEPT ![FreeSlot] = task]
          /\ reqs' = [reqs EXCEPT ![ops + 1] = task]
    /\ ops' = ops + 1

Finish(t) == tasks' = [tasks EXCEPT ![t] = NoTask]

Goto(t, pc) == tasks' = [tasks EXCEPT ![t].pc = pc]

UserOf(t) == conn[tasks[t].conn].userId
\* new Date() inside the handler of the o-th client event
Date(t) == tasks[t].op
ServerOf(t) == ProcOf(tasks[t].conn)

\* io.emit('message:error', ...) : to every open socket
emitError_broadcast(box, k) ==
    [j \in Conns |->
        IF conn[j].state = "open" THEN [box[j] EXCEPT ![0] = @ + 1] ELSE box[j]]

\* socket.emit('message:error', ...) : to the originating socket only
emitError(box, k) ==
    [box EXCEPT ![k][0] = IF conn[k].state = "open" THEN @ + 1 ELSE @]

\* the awaited operation of step `step` rejected
Failed(t, step) == outcome' = [outcome EXCEPT ![tasks[t].op].fault = step]

\* catch (error) { socket.emit('message:error', ...) } of a handler
catch(t, step) ==
    /\ inbox' = emitError(inbox, tasks[t].conn)
    /\ outcome' = [outcome EXCEPT ![tasks[t].op] =
                      [@ EXCEPT !.fault = step,
                                !.error = conn[tasks[t].conn].state = "open"]]
    /\ Finish(t)

\* a handler without try/catch: its promise rejects and nobody handles it.
\* Node either only warns (the handler is abandoned) or ends the process.
Unhandled(t, step) ==
    /\ Failed(t, step)
    /\ \/ Finish(t) /\ UNCHANGED <<conn, alive>>
       \/ terminate(conn, ServerOf(t))

\* ---- publishToCluster ----
\* every handler publishes on the channel of the messages
channel_messagesOnly(t) == CHANNELS.MESSAGES

\* the channel a handler names in its call of publishToCluster
channel(t) ==
    CASE tasks[t].kind = "send" -> CHANNELS.MESSAGES
      [] tasks[t].kind \in {"typing_start", "typing_stop"} -> CHANNELS.TYPING
      [] tasks[t].kind \in {"read", "bulk"} -> CHANNELS.STATUS
      [] tasks[t].kind \in {"join", "disconnect"} -> CHANNELS.USER_EVENTS

\* the event name and the payload a handler hands to publishToCluster; the
\* disconnect handler hands over the leftData of the room it has just announced
publishEvent(t) ==
    CASE tasks[t].kind = "send" -> "message:new"
      [] tasks[t].kind \in {"typing_start", "typing_stop"} -> "typing:update"
      [] tasks[t].kind = "read" -> "message:read"
      [] tasks[t].kind = "bulk" -> "messages:read"
      [] tasks[t].kind = "join" -> "user:joined"
      [] tasks[t].kind = "disconnect" -> "user:left"

publishPayload(t) ==
    CASE tasks[t].kind \in {"send", "read"} ->
             [userId |-> UserOf(t), mid |-> tasks[t].mid, ids |-> {}]
      [] tasks[t].kind = "bulk" ->
             [userId |-> UserOf(t), mid |-> 0, ids |-> tasks[t].ids]
      [] tasks[t].kind \in {"typing_start", "typing_stop"} ->
             [userId |-> UserOf(t), mid |-> 0, ids |-> {},
              isTyping |-> tasks[t].kind = "typing_start"]
      [] tasks[t].kind \in {"join", "disconnect"} ->
             [userId |-> UserOf(t), mid |-> 0, ids |-> {}]

publishRoom(t) ==
    IF tasks[t].kind = "disconnect"
    THEN events[tasks[t].op].room
    ELSE chatRoom(tasks[t].chat)

\* the envelope names the user's room and not the room of the chat
envelope_userRoom(t) ==
    [room |-> userRoom(UserOf(t)), event |-> publishEvent(t),
     payload |-> publishPayload(t), serverId |-> ServerOf(t),
     timestamp |-> Date(t)]

\* const message: PubSubMessage = {room, event, payload, serverId, timestamp}
envelope(t) ==
    [room |-> publishRoom(t), event |-> publishEvent(t),
     payload |-> publishPayload(t), serverId |-> ServerOf(t),
     timestamp |-> Date(t)]

\* redisPublisher.publish: Redis hands the envelope to every process that has
\* subscribed to the channel, the publishing process included
publishToCluster(q, ch, e) ==
    [p \in Procs |->
        IF boot[p].subscribed /\ ch \in subscriptions
        THEN Append(q[p], e) ELSE q[p]]

\* a rejected publish is caught and logged inside publishToCluster
Publish(t) ==
    /\ tasks[t].pc = "publish"
    /\ IF up.bus
       THEN /\ bus' = publishToCluster(bus, channel(t), tasks[t].op)
            /\ outcome' = [outcome EXCEPT ![tasks[t].op].channel = channel(t),
                                          ![tasks[t].op].envelope = envelope(t)]
       ELSE UNCHANGED bus /\ Failed(t, "publish")
    /\ IF tasks[t].kind = "send" THEN Goto(t, "send_cache")
       ELSE IF tasks[t].kind = "disconnect" /\ tasks[t].ids # {}
       THEN Goto(t, "disc_online")
       ELSE Finish(t)
    /\ UNCHANGED <<conn, messages, chats, online, userServer, adapterQ, inbox,
                   events, wrote, recent, relayed, dropped, reqs, ops,
                   timeVars, envVars>>
    /\ UNCHANGED hostVars

\* ---- setupRedisSubscriptions: redisSubscriber.on('message') ----
isOwnEnvelope_never(p, e) == FALSE

isOwnEnvelope_always(p, e) == TRUE

isOwnEnvelope(p, e) == outcome[e].envelope.serverId = p

onMessage(p) ==
    /\ alive[p]
    /\ bus[p] # <<>>
    /\ LET e == Head(bus[p]) IN
       /\ bus' = [bus EXCEPT ![p] = Tail(@)]
       /\ IF isOwnEnvelope(p, e)
          THEN /\ dropped' = [dropped EXCEPT ![p] = @ \cup {e}]
               /\ UNCHANGED <<inbox, adapterQ, relayed>>
          ELSE /\ inbox' = deliverLocal(inbox, p, outcome[e].envelope.room, e, 0)
               /\ adapterQ' = adapterBroadcast(adapterQ, p, e, 0)
               /\ relayed' = [relayed EXCEPT ![p] = @ \cup {e}]
               /\ UNCHANGED dropped
    /\ UNCHANGED <<conn, messages, chats, online, userServer, tasks, events,
                   wrote, recent, reqs, ops, timeVars, envVars, outcome>>
    /\ UNCHANGED hostVars

\* ---- Socket.IO Redis adapter (createAdapter in initializeSocket) ----
\* the room a packet names: the room of the emission that it carries, which is
\* the handler's own emission or the re-emission of an envelope
packetRoom(e) ==
    IF events[e] # NoEvent THEN events[e].room ELSE outcome[e].envelope.room

adapterOnMessage(p) ==
    /\ alive[p]
    /\ adapterQ[p] # <<>>
    /\ LET pkt == Head(adapterQ[p]) IN
       inbox' = deliverLocal(inbox, p, packetRoom(pkt.ev), pkt.ev, pkt.except)
    /\ adapterQ' = [adapterQ EXCEPT ![p] = Tail(@)]
    /\ UNCHANGED <<conn, messages, chats, online, userServer, tasks, bus,
                   events, wrote, recent, relayed, dropped, reqs, ops,
                   timeVars, envVars, outcome>>
    /\ UNCHANGED hostVars

\* emit an event from a handler on process p and remember it for the publish
EmitAndPublish(t, e, except) ==
    /\ events' = [events EXCEPT ![tasks[t].op] = e]
    /\ inbox' = deliverLocal(inbox, e.serverId, e.room, tasks[t].op, except)
    /\ adapterQ' = adapterBroadcast(adapterQ, e.serverId, tasks[t].op, except)
    /\ tasks' = [tasks EXCEPT ![t].pc = "publish"]

\* ---- handleJoinChat (no try/catch) ----
handleJoinChat(k, c) ==
    /\ Start(k, "join", "join_online", c, 0, {})
    /\ conn' = [conn EXCEPT ![k].rooms = @ \cup {chatRoom(c)}]
    /\ UNCHANGED <<messages, chats, online, userServer, bus, adapterQ, inbox,
                   events, wrote, recent, relayed, dropped, timeVars, envVars,
                   outcome>>
    /\ UNCHANGED hostVars

JoinOnline(t) ==
    /\ tasks[t].pc = "join_online"
    /\ IF up.cache
       THEN /\ online' = online \cup {<<UserOf(t), tasks[t].chat>>}
            /\ Goto(t, "join_update")
            /\ UNCHANGED <<conn, alive, outcome>>
       ELSE /\ Unhandled(t, "join_online")
            /\ UNCHANGED online
    /\ UNCHANGED <<messages, chats, userServer, bus, adapterQ, inbox,
                   events, wrote, recent, relayed, dropped, reqs, ops,
                   timeVars, up>>
    /\ UNCHANGED hostVars

JoinUpdate(t) ==
    /\ tasks[t].pc = "join_update"
    /\ IF up.store
       THEN /\ messages' = updateManyDelivered(messages, tasks[t].chat,
                                               UserOf(t), Date(t))
            /\ wrote' = wrote \cup {tasks[t].op}
            /\ EmitAndPublish(t, Event("user:joined", chatRoom(tasks[t].chat),
                                       ServerOf(t), UserOf(t), 0, {}),
                              tasks[t].conn)
            /\ UNCHANGED <<conn, alive, outcome>>
       ELSE /\ Unhandled(t, "join_update")
            /\ UNCHANGED <<messages, wrote, events, inbox, adapterQ>>
    /\ UNCHANGED <<chats, online, userServer, bus, recent, relayed,
                   dropped, reqs, ops, timeVars, up>>
    /\ UNCHANGED hostVars

\* ---- handleNewMessage (try/catch around the whole body) ----
handleNewMessage(k, c) ==
    /\ Start(k, "send", "send_find", c, 0, {})
    /\ UNCHANGED <<conn, messages, chats, online, userServer, bus, adapterQ,
                   inbox, events, wrote, recent, relayed, dropped, timeVars,
                   envVars, outcome>>
    /\ UNCHANGED hostVars

SendFind(t) ==
    /\ tasks[t].pc = "send_find"
    /\ IF ~up.store
       THEN catch(t, "find")
       ELSE IF chats[tasks[t].chat].exists
       THEN Goto(t, "send_create") /\ UNCHANGED <<inbox, outcome>>
       ELSE /\ Finish(t)
            /\ inbox' = emitError(inbox, tasks[t].conn)
            /\ outcome' = [outcome EXCEPT ![tasks[t].op].error =
                              conn[tasks[t].conn].state = "open"]
    /\ UNCHANGED <<conn, messages, chats, online, userServer, bus, adapterQ,
                   events, wrote, recent, relayed, dropped, reqs, ops,
                   timeVars, envVars>>
    /\ UNCHANGED hostVars

SendCreate_swallow(t) ==
    /\ tasks[t].pc = "send_create"
    /\ IF ~up.store
       THEN Finish(t) /\ Failed(t, "create") /\ UNCHANGED <<messages, inbox>>
       ELSE /\ messages' = Append(messages,
                   [chatId |-> tasks[t].chat, senderId |-> UserOf(t),
                    status |-> messageStatus(chats[tasks[t].chat].participants,
                                             UserOf(t))])
            /\ tasks' = [tasks EXCEPT ![t].pc = "send_last",
                                      ![t].mid = Len(messages) + 1]
            /\ outcome' = [outcome EXCEPT ![tasks[t].op].mid = Len(messages) + 1]
            /\ UNCHANGED inbox
    /\ UNCHANGED <<conn, chats, online, userServer, bus, adapterQ,
                   events, wrote, recent, relayed, dropped, reqs, ops,
                   timeVars, envVars>>
    /\ UNCHANGED hostVars

SendCreate(t) ==
    /\ tasks[t].pc = "send_create"
    /\ IF ~up.store
       THEN catch(t, "create") /\ UNCHANGED messages
       ELSE /\ messages' = Append(messages,
                   [chatId |-> tasks[t].chat, senderId |-> UserOf(t),
                    status |-> messageStatus(chats[tasks[t].chat].participants,
                                             UserOf(t))])
            /\ tasks' = [tasks EXCEPT ![t].pc = "send_last",
                                      ![t].mid = Len(messages) + 1]
            /\ outcome' = [outcome EXCEPT ![tasks[t].op].mid = Len(messages) + 1]
            /\ UNCHANGED inbox
    /\ UNCHANGED <<conn, chats, online, userServer, bus, adapterQ,
                   events, wrote, recent, relayed, dropped, reqs, ops,
                   timeVars, envVars>>
    /\ UNCHANGED hostVars

SendLast(t) ==
    /\ tasks[t].pc = "send_last"
    /\ IF ~up.store
       THEN catch(t, "last") /\ UNCHANGED <<chats, wrote, events, adapterQ>>
       ELSE /\ chats' = [chats EXCEPT ![tasks[t].chat].lastMessage = tasks[t].mid]
            /\ wrote' = wrote \cup {tasks[t].op}
            /\ EmitAndPublish(t, Event("message:new", chatRoom(tasks[t].chat),
                                       ServerOf(t), UserOf(t), tasks[t].mid, {}), 0)
            /\ UNCHANGED outcome
    /\ UNCHANGED <<conn, messages, online, userServer, bus, recent, relayed,
                   dropped, reqs, ops, timeVars, envVars>>
    /\ UNCHANGED hostVars

SendCache(t) ==
    /\ tasks[t].pc = "send_cache"
    /\ IF ~up.cache
       THEN catch(t, "cache") /\ UNCHANGED recent
       ELSE /\ recent' = [recent EXCEPT ![tasks[t].chat] = @ \cup {tasks[t].mid}]
            /\ Finish(t)
            /\ UNCHANGED <<inbox, outcome>>
    /\ UNCHANGED <<conn, messages, chats, online, userServer, bus, adapterQ,
                   events, wrote, relayed, dropped, reqs, ops,
                   timeVars, envVars>>
    /\ UNCHANGED hostVars

\* ---- handleMessageRead (try/catch around the whole body) ----
handleMessageRead(k, mid, c) ==
    /\ Start(k, "read", "read_find", c, mid, {})
    /\ UNCHANGED <<conn, messages, chats, online, userServer, bus, adapterQ,
                   inbox, events, wrote, recent, relayed, dropped, timeVars,
                   envVars, outcome>>
    /\ UNCHANGED hostVars

alreadyRead_never(status, u) == FALSE

\* existingStatus && existingStatus.isRead
alreadyRead(status, u) ==
    HasRecord(status, u) /\ status[FirstOfUser(status, u)].isRead

ReadFind(t) ==
    /\ tasks[t].pc = "read_find"
    /\ IF ~up.store
       THEN catch(t, "find")
       ELSE IF tasks[t].mid \notin DOMAIN messages
       THEN /\ Finish(t)
            /\ inbox' = emitError(inbox, tasks[t].conn)
            /\ outcome' = [outcome EXCEPT ![tasks[t].op].error =
                              conn[tasks[t].conn].state = "open"]
       ELSE /\ IF alreadyRead(messages[tasks[t].mid].status, UserOf(t))
               THEN Finish(t)
               ELSE Goto(t, "read_update")
            /\ UNCHANGED <<inbox, outcome>>
    /\ UNCHANGED <<conn, messages, chats, online, userServer, bus, adapterQ,
                   events, wrote, recent, relayed, dropped, reqs, ops,
                   timeVars, envVars>>
    /\ UNCHANGED hostVars

\* the update is issued but not awaited: the emission runs before it
ReadUpdate_fireAndForget(t) ==
    /\ tasks[t].pc = "read_update"
    /\ EmitAndPublish(t, Event("message:read", chatRoom(tasks[t].chat),
                               ServerOf(t), UserOf(t), tasks[t].mid, {}), 0)
    /\ UNCHANGED <<conn, messages, chats, online, userServer, bus, wrote,
                   recent, relayed, dropped, reqs, ops, timeVars, envVars,
                   outcome>>
    /\ UNCHANGED hostVars

ReadUpdate(t) ==
    /\ tasks[t].pc = "read_update"
    /\ IF ~up.store
       THEN catch(t, "update") /\ UNCHANGED <<messages, wrote, events, adapterQ>>
       ELSE /\ messages' = findOneAndUpdateRead(messages, tasks[t].mid,
                                                UserOf(t), Date(t))
            /\ wrote' = wrote \cup {tasks[t].op}
            /\ EmitAndPublish(t, Event("message:read", chatRoom(tasks[t].chat),
                                       ServerOf(t), UserOf(t), tasks[t].mid, {}), 0)
            /\ UNCHANGED outcome
    /\ UNCHANGED <<conn, chats, online, userServer, bus, recent, relayed,
                   dropped, reqs, ops, timeVars, envVars>>
    /\ UNCHANGED hostVars

\* ---- handleBulkMessageRead (try/catch around the whole body) ----
handleBulkMessageRead(k, ids, c) ==
    /\ Start(k, "bulk", "bulk_update", c, 0, ids)
    /\ UNCHANGED <<conn, messages, chats, online, userServer, bus, adapterQ,
                   inbox, events, wrote, recent, relayed, dropped, timeVars,
                   envVars, outcome>>
    /\ UNCHANGED hostVars

BulkUpdate(t) ==
    /\ tasks[t].pc = "bulk_update"
    /\ IF ~up.store
       THEN catch(t, "update") /\ UNCHANGED <<messages, wrote, events, adapterQ>>
       ELSE /\ \E binder \in BulkBinders :
                   messages' = updateManyRead(messages, tasks[t].ids, UserOf(t),
                                              Date(t), binder)
            /\ wrote' = wrote \cup {tasks[t].op}
            /\ EmitAndPublish(t, Event("messages:read", chatRoom(tasks[t].chat),
                                       ServerOf(t), UserOf(t), 0, tasks[t].ids), 0)
            /\ UNCHANGED outcome
    /\ UNCHANGED <<conn, chats, online, userServer, bus, recent, relayed,
                   dropped, reqs, ops, timeVars, envVars>>
    /\ UNCHANGED hostVars

\* ---- handleTypingStart / handleTypingStop (no try/catch) ----
TypingEvent(t, isTyping) ==
    [name |-> "typing:update", room |-> chatRoom(tasks[t].chat),
     serverId |-> ServerOf(t), userId |-> UserOf(t), mid |-> 0, ids |-> {},
     isTyping |-> isTyping]

handleTypingStart(k, c) ==
    /\ Start(k, "typing_start", "typing_set", c, 0, {})
    /\ UNCHANGED <<conn, messages, chats, online, userServer, bus, adapterQ,
                   inbox, events, wrote, recent, relayed, dropped, timeVars,
                   envVars, outcome>>
    /\ UNCHANGED hostVars

TypingSet(t) ==
    /\ tasks[t].pc = "typing_set"
    /\ IF up.cache
       THEN /\ typing' = [typing EXCEPT ![<<UserOf(t), tasks[t].chat>>] =
                             set(@, TYPING_EXPIRY)]
            /\ sinceTyping' = [sinceTyping EXCEPT
                                   ![<<UserOf(t), tasks[t].chat>>] = 0]
            /\ EmitAndPublish(t, TypingEvent(t, TRUE), tasks[t].conn)
            /\ UNCHANGED <<conn, alive, outcome>>
       ELSE /\ Unhandled(t, "typing_set")
            /\ UNCHANGED <<typing, sinceTyping, events, inbox, adapterQ>>
    /\ UNCHANGED <<messages, chats, online, userServer, userServerTtl,
                   sinceConnect, up, bus, wrote, recent, relayed, dropped,
                   reqs, ops>>
    /\ UNCHANGED hostVars

handleTypingStop(k, c) ==
    /\ Start(k, "typing_stop", "typing_del", c, 0, {})
    /\ UNCHANGED <<conn, messages, chats, online, userServer, bus, adapterQ,
                   inbox, events, wrote, recent, relayed, dropped, timeVars,
                   envVars, outcome>>
    /\ UNCHANGED hostVars

TypingDel(t) ==
    /\ tasks[t].pc = "typing_del"
    /\ IF up.cache
       THEN /\ typing' = [typing EXCEPT ![<<UserOf(t), tasks[t].chat>>] = Absent]
            /\ EmitAndPublish(t, TypingEvent(t, FALSE), tasks[t].conn)
            /\ UNCHANGED <<conn, alive, outcome>>
       ELSE /\ Unhandled(t, "typing_del")
            /\ UNCHANGED <<typing, events, inbox, adapterQ>>
    /\ UNCHANGED <<messages, chats, online, userServer, userServerTtl,
                   sinceConnect, sinceTyping, up, bus, wrote, recent, relayed,
                   dropped, reqs, ops>>
    /\ UNCHANGED hostVars

\* ---- handleDisconnect (no try/catch) ----
\* Socket.IO leaves every room (leaveAll) before it fires 'disconnect'
leaveAll(k) == {c \in ChatIds : chatRoom(c) \in conn[k].rooms}

handleDisconnect(k) ==
    /\ Start(k, "disconnect", "disc_server", 0, 0, {})
    /\ conn' = [conn EXCEPT ![k].state = "closed", ![k].rooms = {},
                            ![k].left = leaveAll(k)]
    /\ UNCHANGED <<messages, chats, online, userServer, bus, adapterQ, inbox,
                   events, wrote, recent, relayed, dropped, timeVars, envVars,
                   outcome>>
    /\ UNCHANGED hostVars

\* Array.from(socket.rooms).filter(startsWith('chat:')).map(split(':')[1])
userRooms(k) == {c \in ChatIds : chatRoom(c) \in conn[k].rooms}

DiscServer(t) ==
    /\ tasks[t].pc = "disc_server"
    /\ IF up.cache
       THEN /\ userServer' = [userServer EXCEPT ![UserOf(t)] = 0]
            /\ userServerTtl' = [userServerTtl EXCEPT ![UserOf(t)] = Absent]
            /\ IF userRooms(tasks[t].conn) = {}
               THEN Finish(t)
               ELSE tasks' = [tasks EXCEPT ![t].pc = "disc_online",
                                           ![t].ids = userRooms(tasks[t].conn)]
            /\ UNCHANGED <<conn, alive, outcome>>
       ELSE /\ Unhandled(t, "disc_server")
            /\ UNCHANGED <<userServer, userServerTtl>>
    /\ UNCHANGED <<messages, chats, online, typing, sinceTyping, sinceConnect,
                   up, bus, adapterQ, inbox, events, wrote, recent, relayed,
                   dropped, reqs, ops>>
    /\ UNCHANGED hostVars

\* body of `for (const chatId of userRooms)`: taken once per element of
\* userRooms, which is empty whenever DiscServer runs
NextRoom(t) == CHOOSE c \in tasks[t].ids : \A d \in tasks[t].ids : c <= d

DiscOnline(t) ==
    /\ tasks[t].pc = "disc_online"
    /\ IF up.cache
       THEN /\ online' = online \ {<<UserOf(t), NextRoom(t)>>}
            /\ Goto(t, "disc_typing")
            /\ UNCHANGED <<conn, alive, outcome>>
       ELSE /\ Unhandled(t, "disc_online")
            /\ UNCHANGED online
    /\ UNCHANGED <<messages, chats, userServer, bus, adapterQ, inbox, events,
                   wrote, recent, relayed, dropped, reqs, ops, timeVars, up>>
    /\ UNCHANGED hostVars

DiscTyping(t) ==
    /\ tasks[t].pc = "disc_typing"
    /\ IF up.cache
       THEN /\ typing' = [typing EXCEPT ![<<UserOf(t), NextRoom(t)>>] = Absent]
            /\ events' = [events EXCEPT ![tasks[t].op] =
                   Event("user:left", chatRoom(NextRoom(t)), ServerOf(t),
                         UserOf(t), 0, {})]
            /\ inbox' = deliverLocal(inbox, ServerOf(t), chatRoom(NextRoom(t)),
                                     tasks[t].op, tasks[t].conn)
            /\ adapterQ' = adapterBroadcast(adapterQ, ServerOf(t), tasks[t].op,
                                            tasks[t].conn)
            /\ tasks' = [tasks EXCEPT ![t].pc = "publish",
                                      ![t].ids = @ \ {NextRoom(t)}]
            /\ UNCHANGED <<conn, alive, outcome>>
       ELSE /\ Unhandled(t, "disc_typing")
            /\ UNCHANGED <<typing, events, inbox, adapterQ>>
    /\ UNCHANGED <<messages, chats, online, userServer, userServerTtl,
                   sinceConnect, sinceTyping, up, bus, wrote, recent, relayed,
                   dropped, reqs, ops>>
    /\ UNCHANGED hostVars

\* ---- sendToUser ----
\* this.io.sockets.sockets.get(id): the sockets map of the process is keyed
\* by the id Socket.IO gave the socket when it was created, <<k, "sid">>
socketsGet(p, id) ==
    {k \in Conns : conn[k].state = "open" /\ ProcOf(k) = p /\ <<k, "sid">> = id}

\* the only await is the publish at the end; a rejected publish is caught
\* inside publishToCluster
sendToUser(p, userId) ==
    /\ alive[p]
    /\ boot[p].phase = "listening"
    /\ ops < MaxOps
    /\ ops' = ops + 1
    /\ reqs' = [reqs EXCEPT ![ops + 1] =
                    [NoTask EXCEPT !.kind = "direct", !.op = ops + 1]]
    /\ LET e == ops + 1
           \* userId: string, the hex string of the user's ObjectId
           localSocket == socketsGet(p, <<userId, "lower">>)
       IN IF localSocket # {}
          THEN /\ inbox' = [k \in Conns |->
                               IF k \in localSocket
                               THEN [inbox[k] EXCEPT ![e] = @ + 1]
                               ELSE inbox[k]]
               /\ outcome' = [outcome EXCEPT ![e].returned = "true"]
               /\ UNCHANGED bus
          ELSE /\ UNCHANGED inbox
               /\ IF up.bus
                  THEN /\ bus' = publishToCluster(bus, CHANNELS.USER_EVENTS, e)
                       /\ outcome' =
                              [outcome EXCEPT
                                  ![e].channel = CHANNELS.USER_EVENTS,
                                  ![e].envelope =
                                      [room |-> userRoom(userId),
                                       event |-> "direct",
                                       payload |-> NoPayload,
                                       serverId |-> p,
                                       timestamp |-> e],
                                  ![e].returned = "false"]
                  ELSE /\ UNCHANGED bus
                       /\ outcome' = [outcome EXCEPT ![e].fault = "publish",
                                                     ![e].returned = "false"]
    /\ UNCHANGED <<conn, messages, chats, online, userServer, tasks, adapterQ,
                   events, wrote, recent, relayed, dropped, timeVars, envVars>>
    /\ UNCHANGED hostVars

\* ---- the environment ----
\* Redis expires keys as time passes: second by second while a typing flag
\* is running, otherwise up to the next expiry of a server pointer
Min(S) == CHOOSE x \in S : \A y \in S : x <= y

Running == {userServerTtl[u] : u \in {v \in Users : userServerTtl[v] > 0}}

Elapsed ==
    IF \E x \in TypingKeys : typing[x] > 0 THEN 1 ELSE Min(Running)

Tick ==
    /\ (\E x \in TypingKeys : typing[x] > 0) \/ Running # {}
    /\ typing' = [x \in TypingKeys |-> expire(typing[x], Elapsed)]
    /\ userServerTtl' = [u \in Users |-> expire(userServerTtl[u], Elapsed)]
    /\ userServer' = [u \in Users |->
           IF userServerTtl[u] > 0 /\ expire(userServerTtl[u], Elapsed) = Absent
           THEN 0 ELSE userServer[u]]
    /\ sinceConnect' = [u \in Users |->
           IF sinceConnect[u] + Elapsed > SERVER_EXPIRY THEN SERVER_EXPIRY
           ELSE sinceConnect[u] + Elapsed]
    /\ sinceTyping' = [x \in TypingKeys |->
           IF sinceTyping[x] + Elapsed > TYPING_EXPIRY THEN TYPING_EXPIRY
           ELSE sinceTyping[x] + Elapsed]
    /\ UNCHANGED <<conn, messages, chats, online, tasks, bus, adapterQ, inbox,
                   events, wrote, recent, relayed, dropped, reqs, ops,
                   envVars, outcome>>
    /\ UNCHANGED hostVars

Services == {"store", "cache", "bus"}

\* MongoDB, the Redis key store or the Redis pub/sub connection stops answering
Outage(s) ==
    /\ up[s]
    /\ up' = [up EXCEPT ![s] = FALSE]
    /\ UNCHANGED <<conn, messages, chats, online, userServer, tasks, bus,
                   adapterQ, inbox, events, wrote, recent, relayed, dropped,
                   reqs, ops, timeVars, alive, outcome>>
    /\ UNCHANGED hostVars

Recover(s) ==
    /\ ~up[s]
    /\ up' = [up EXCEPT ![s] = TRUE]
    /\ UNCHANGED <<conn, messages, chats, online, userServer, tasks, bus,
                   adapterQ, inbox, events, wrote, recent, relayed, dropped,
                   reqs, ops, timeVars, alive, outcome>>
    /\ UNCHANGED hostVars

\* ---- startServer ----
\* connectToMongoDB is awaited and ends the process when it fails.  The Redis
\* clients of initializeSocket and of the ChatHandler are only constructed:
\* nothing waits for their connections, their 'error' events are logged, and
\* httpServer.listen follows at once.
startServer(p) ==
    /\ alive[p]
    /\ boot[p].phase = "starting"
    /\ IF up.store
       THEN /\ boot' = [boot EXCEPT ![p] =
                           [phase |-> "listening", store |-> TRUE,
                            bus |-> up.bus, subscribed |-> up.bus]]
            /\ UNCHANGED alive
       ELSE /\ boot' = [boot EXCEPT ![p].phase = "exited"]
            /\ alive' = [alive EXCEPT ![p] = FALSE]
    /\ UNCHANGED <<conn, messages, chats, online, userServer, tasks, bus,
                   adapterQ, inbox, events, wrote, recent, relayed, dropped,
                   reqs, ops, timeVars, up, outcome, handshake, http>>

\* the subscribe command waited in the offline queue and Redis has come back
subscribeResolved(p) ==
    /\ alive[p]
    /\ boot[p].phase = "listening"
    /\ ~boot[p].subscribed
    /\ up.bus
    /\ boot' = [boot EXCEPT ![p].subscribed = TRUE]
    /\ UNCHANGED <<conn, messages, chats, online, userServer, tasks, bus,
                   adapterQ, inbox, events, wrote, recent, relayed, dropped,
                   reqs, ops, timeVars, envVars, outcome, handshake, http>>

\* maxRetriesPerRequest is used up: the promise of subscribe(), which nobody
\* holds, rejects, and a Node that ends the process on an unhandled rejection
\* ends it; any other Node goes on without a subscription
subscribeRejected(p) ==
    /\ alive[p]
    /\ boot[p].phase = "listening"
    /\ ~boot[p].subscribed
    /\ ~up.bus
    /\ terminate(conn, p)
    /\ UNCHANGED <<messages, chats, online, userServer, bus,
                   adapterQ, inbox, events, wrote, recent, relayed, dropped,
                   reqs, ops, timeVars, up, outcome, handshake, http, boot>>

\* ---- ChatController.createChat ----
\* userId.toString(): the requester's id as the access token carries it
toString(u) == <<u, "lower">>

\* the ObjectId Mongoose casts a 24-digit hex string to: the case of the digits
\* does not matter
castObjectId(id) == id[1]

\* [...new Set(array)]: the first occurrence of every value, in order; strings
\* are the same value when they are the same characters
RECURSIVE newSet(_)
newSet(array) ==
    IF array = <<>>
    THEN <<>>
    ELSE LET front == newSet(SubSeq(array, 1, Len(array) - 1))
             last == array[Len(array)]
         IN IF last \in {front[i] : i \in DOMAIN front}
            THEN front
            ELSE Append(front, last)

respond(r, req, status, c) ==
    http' = [http EXCEPT ![r] = [req EXCEPT !.pc = "done", !.status = status,
                                            !.chat = c]]

\* the request runs to its first await
createChat(r, userId, body) ==
    /\ http[r].pc = "idle"
    /\ \A q \in 1..(r - 1) : http[q].pc # "idle"
    /\ LET allParticipants == newSet(body.participants \o <<toString(userId)>>)
           req == [NoRequest EXCEPT !.userId = userId, !.body = body,
                                    !.before = {c \in ChatIds : chats[c].exists}]
       IN IF userId = 0
          THEN respond(r, req, 401, 0)
          ELSE IF ~body.isArray
          THEN respond(r, req, 400, 0)
          ELSE IF body.isGroupChat /\ ~body.name
          THEN respond(r, req, 400, 0)
          ELSE IF body.isGroupChat /\ Len(allParticipants) < 3
          THEN respond(r, req, 400, 0)
          ELSE IF ~body.isGroupChat /\ Len(allParticipants) # 2
          THEN respond(r, req, 400, 0)
          ELSE http' = [http EXCEPT ![r] =
                           [req EXCEPT !.all = allParticipants,
                                       !.pc = IF body.isGroupChat
                                              THEN "create" ELSE "findOne"]]
    /\ UNCHANGED <<conn, messages, chats, online, userServer, tasks, bus,
                   adapterQ, inbox, events, wrote, recent, relayed, dropped,
                   reqs, ops, timeVars, envVars, outcome, handshake, boot>>

\* a query for the participants array as a whole: the order has to match
findOneChat_sameOrder(all) ==
    {c \in ChatIds :
        /\ chats[c].exists
        /\ ~chats[c].isGroupChat
        /\ chats[c].participants = [i \in DOMAIN all |-> castObjectId(all[i])]}

\* Chat.findOne({isGroupChat: false, participants: {$all, $size: 2}}): the
\* query casts the ids, the first match in insertion order is returned
findOneChat(all) ==
    {c \in ChatIds :
        /\ chats[c].exists
        /\ ~chats[c].isGroupChat
        /\ Len(chats[c].participants) = 2
        /\ \A i \in DOMAIN all :
               castObjectId(all[i]) \in
                   {chats[c].participants[j] : j \in DOMAIN chats[c].participants}}

CreateFindOne(r) ==
    /\ http[r].pc = "findOne"
    /\ IF ~up.store
       THEN respond(r, http[r], 500, 0)
       ELSE IF findOneChat(http[r].all) # {}
       THEN respond(r, http[r], 200, Min(findOneChat(http[r].all)))
       ELSE http' = [http EXCEPT ![r].pc = "create"]
    /\ UNCHANGED <<conn, messages, chats, online, userServer, tasks, bus,
                   adapterQ, inbox, events, wrote, recent, relayed, dropped,
                   reqs, ops, timeVars, envVars, outcome, handshake, boot>>

\* Chat.create casts every id of the document
newChat(req) ==
    [exists |-> TRUE,
     participants |-> [i \in DOMAIN req.all |-> castObjectId(req.all[i])],
     lastMessage |-> 0,
     isGroupChat |-> req.body.isGroupChat,
     groupAdmins |-> IF req.body.isGroupChat THEN <<req.userId>> ELSE <<>>,
     userSpecificSettings |->
         [i \in DOMAIN req.all |-> userSpecificSetting(castObjectId(req.all[i]))]]

\* the collection holds at most NumChats chats
CreateCreate(r) ==
    /\ http[r].pc = "create"
    /\ \E d \in ChatIds : ~chats[d].exists
    /\ IF ~up.store
       THEN respond(r, http[r], 500, 0) /\ UNCHANGED chats
       ELSE LET c == Min({d \in ChatIds : ~chats[d].exists})
            IN /\ chats' = [chats EXCEPT ![c] = newChat(http[r])]
               /\ http' = [http EXCEPT ![r].pc = "findById", ![r].chat = c]
    /\ UNCHANGED <<conn, messages, online, userServer, tasks, bus,
                   adapterQ, inbox, events, wrote, recent, relayed, dropped,
                   reqs, ops, timeVars, envVars, outcome, handshake, boot>>

\* Chat.findById(newChat._id).populate(...), then the 201 response
CreateFindById(r) ==
    /\ http[r].pc = "findById"
    /\ IF ~up.store
       THEN respond(r, http[r], 500, 0)
       ELSE respond(r, http[r], 201, http[r].chat)
    /\ UNCHANGED <<conn, messages, chats, online, userServer, tasks, bus,
                   adapterQ, inbox, events, wrote, recent, relayed, dropped,
                   reqs, ops, timeVars, envVars, outcome, handshake, boot>>

\* the response has been written: the request is over
CreateEnd(r) ==
    /\ http[r].pc = "done"
    /\ http' = [http EXCEPT ![r] = NoRequest]
    /\ UNCHANGED <<conn, messages, chats, online, userServer, tasks, bus,
                   adapterQ, inbox, events, wrote, recent, relayed, dropped,
                   reqs, ops, timeVars, envVars, outcome, handshake, boot>>

\* ---- next-state relation ----
\* a client that holds its own valid token connects
Connect == \E k \in Conns, u \in Users : use(k, ValidToken(u))
Join == \E k \in Conns, c \in ChatIds : handleJoinChat(k, c)
Send == \E k \in Conns, c \in ChatIds : handleNewMessage(k, c)
Read ==
    \E k \in Conns, c \in ChatIds, m \in 1..(Len(messages) + 1) :
        handleMessageRead(k, m, c)
BulkRead ==
    \E k \in Conns, c \in ChatIds, ids \in SUBSET (1..Len(messages)) :
        handleBulkMessageRead(k, ids, c)
Disconnect == \E k \in Conns : handleDisconnect(k)

StepJoin == \E t \in DOMAIN tasks : JoinOnline(t) \/ JoinUpdate(t)
StepSend ==
    \E t \in DOMAIN tasks : SendFind(t) \/ SendCreate(t) \/ SendLast(t) \/ SendCache(t)
StepRead == \E t \in DOMAIN tasks : ReadFind(t) \/ ReadUpdate(t)
StepBulkRead == \E t \in DOMAIN tasks : BulkUpdate(t)
StepDisconnect == \E t \in DOMAIN tasks : DiscServer(t)
StepPublish == \E t \in DOMAIN tasks : Publish(t)

Deliver == \E p \in Procs : onMessage(p) \/ adapterOnMessage(p)

\* membership, messaging and the relay between the processes
Next ==
    \/ Connect \/ Join \/ Send \/ Disconnect
    \/ StepJoin \/ StepSend \/ StepDisconnect \/ StepPublish
    \/ Deliver

Spec == Init /\ [][Next]_vars

\* one user on every connection, one chat: the relay of its events.  The event
\* loop resumes every handler whose awaited operation has returned, and Redis
\* hands every published message to every subscriber.
InitLive == Init /\ messages = <<>>

ConnectLive == \E k \in Conns : use(k, ValidToken(1))
JoinLive == \E k \in Conns : handleJoinChat(k, 1)
SendLive == \E k \in Conns : handleNewMessage(k, 1)

NextLive ==
    \/ ConnectLive \/ JoinLive \/ SendLive \/ Disconnect
    \/ StepJoin \/ StepSend \/ StepDisconnect \/ StepPublish
    \/ Deliver

Progress == StepJoin \/ StepSend \/ StepDisconnect \/ StepPublish \/ Deliver

FairSpec == InitLive /\ [][NextLive]_vars /\ WF_vars(Progress)

\* messaging and read receipts up to the publish; no envelope is delivered yet
NextRead ==
    \/ Connect \/ Join \/ Send \/ Read \/ BulkRead
    \/ StepJoin \/ StepSend \/ StepRead \/ StepBulkRead \/ StepPublish

SpecRead == Init /\ [][NextRead]_vars

\* one user on every connection: typing flags and the passing of time
TypingStart == \E k \in Conns, c \in ChatIds : handleTypingStart(k, c)
TypingStop == \E k \in Conns, c \in ChatIds : handleTypingStop(k, c)
StepTyping == \E t \in DOMAIN tasks : TypingSet(t) \/ TypingDel(t)

NextTyping ==
    \/ ConnectLive \/ TypingStart \/ TypingStop \/ Disconnect
    \/ StepTyping \/ StepDisconnect \/ StepPublish
    \/ Tick

\* time does not stop
SpecTyping == InitLive /\ [][NextTyping]_vars /\ WF_vars(Tick)

\* membership and presence
NextPresence ==
    \/ Connect \/ Join \/ Disconnect
    \/ StepJoin \/ StepDisconnect \/ StepPublish
    \/ Tick

SpecPresence == Init /\ [][NextPresence]_vars

\* one user on every connection, one chat: joining and messaging while
\* services stop answering and recover
Fail == \E s \in Services : Outage(s)
Repair == \E s \in Services : Recover(s)

NextFault ==
    \/ ConnectLive \/ JoinLive \/ SendLive
    \/ StepJoin \/ StepSend \/ StepPublish
    \/ Fail \/ Repair

SpecFault == InitLive /\ [][NextFault]_vars

\* ---- handshakes with any token ----
Handshake ==
    \E k \in Conns :
        \/ use(k, NoToken)
        \/ \E u \in Users : use(k, ValidToken(u))
        \/ \E u \in Users : use(k, ForgedToken(u))

NextAuth ==
    \/ Handshake \/ JoinLive \/ Disconnect
    \/ StepJoin \/ StepDisconnect \/ StepPublish

SpecAuth == InitLive /\ [][NextAuth]_vars

\* ---- every kind of event on the bus ----
ReadLive ==
    \E k \in Conns, m \in 1..Len(messages) : handleMessageRead(k, m, 1)
BulkLive == \E k \in Conns : handleBulkMessageRead(k, DOMAIN messages, 1)
TypingLive ==
    \E k \in Conns : handleTypingStart(k, 1) \/ handleTypingStop(k, 1)

NextBus ==
    \/ ConnectLive \/ JoinLive \/ SendLive \/ ReadLive \/ BulkLive
    \/ TypingLive
    \/ StepJoin \/ StepSend \/ StepRead \/ StepBulkRead \/ StepTyping
    \/ StepPublish \/ Deliver

SpecBus == InitLive /\ [][NextBus]_vars

\* ---- processes that start while the services come and go ----
InitBoot ==
    /\ InitOn(<<>>, InitChats)
    /\ boot = [p \in Procs |-> Starting]
    /\ tasks = [t \in TaskIds |-> NoTask]

Boot ==
    \E p \in Procs :
        startServer(p) \/ subscribeResolved(p) \/ subscribeRejected(p)

NextBoot ==
    \/ Boot \/ Fail \/ Repair
    \/ ConnectLive \/ JoinLive \/ StepJoin \/ StepPublish

SpecBoot == InitBoot /\ [][NextBoot]_vars

\* ---- POST /api/chats, one request after the other ----
\* the body names at most MaxBody ids or carries no array at all; the first id
\* of the array comes in either spelling, a name comes with group requests only
MaxBody == 2

Post ==
    /\ \A r \in ReqIds : http[r].pc = "idle"
    /\ \/ createChat(1, 0, NoBody)
       \/ \E userId \in Users, group \in BOOLEAN :
             \E name \in {b \in BOOLEAN : b => group} :
                \/ createChat(1, userId, [NoBody EXCEPT !.isGroupChat = group,
                                                        !.name = name])
                \/ \E n \in 0..MaxBody :
                      \E ids \in [1..n -> Users], how \in {"lower", "upper"} :
                          createChat(1, userId,
                                     [isArray |-> TRUE,
                                      participants |->
                                          [i \in 1..n |->
                                              <<ids[i], IF i = 1 THEN how
                                                        ELSE "lower">>],
                                      isGroupChat |-> group, name |-> name])

StepCreate ==
    \E r \in ReqIds :
        \/ CreateFindOne(r) \/ CreateCreate(r) \/ CreateFindById(r)
        \/ CreateEnd(r)

NextChat == Post \/ StepCreate

\* the chat collection is empty
InitChat ==
    /\ InitOn(<<>>, [c \in ChatIds |-> NoChat])
    /\ boot = [p \in Procs |-> Listening]
    /\ tasks = [t \in TaskIds |-> NoTask]

SpecChat == InitChat /\ [][NextChat]_vars

\* ---- POST /api/chats, requests that overlap ----
\* one-on-one requests that name one user, the id spelled as the server prints
\* it; a request arrives while another is suspended at an await
PostPair ==
    \E r \in ReqIds, userId \in Users, other \in Users :
        createChat(r, userId,
                   [isArray |-> TRUE, participants |-> <<toString(other)>>,
                    isGroupChat |-> FALSE, name |-> FALSE])

NextOverlap == PostPair \/ StepCreate

SpecOverlap == InitChat /\ [][NextOverlap]_vars

\* ---- handlers that overlap ----
\* one user on every connection, one chat: a second client event arrives while
\* the handler of the first is suspended at an await, so there is room for one
\* handler more
InitRace ==
    /\ \E ms \in {<<>>, <<StoredMessage>>} :
          InitOn(ms, [InitChats EXCEPT ![1].lastMessage = Len(ms)])
    /\ boot = [p \in Procs |-> Listening]
    /\ tasks = [t \in 1..(MaxTasks + 1) |-> NoTask]

NextRace ==
    \/ ConnectLive \/ SendLive \/ ReadLive
    \/ StepSend \/ StepRead \/ StepPublish

SpecRace == InitRace /\ [][NextRace]_vars

\* ---- direct messages ----
\* some other part of the server calls sendToUser for any user
Direct == \E p \in Procs, u \in Users : sendToUser(p, u)

NextDirect == Connect \/ Direct \/ Deliver

SpecDirect == InitLive /\ [][NextDirect]_vars

TypeOK ==
    /\ ops \in 0..MaxOps
    /\ \A k \in Conns : conn[k].state \in {"new", "open", "closed", "refused"}
    /\ \A k \in Conns : /\ handshake[k][1] \in {"none", "valid", "forged"}
                         /\ handshake[k][2] \in 0..NumUsers
    /\ \A p \in Procs : relayed[p] \cap dropped[p] = {}
    /\ \A x \in TypingKeys : typing[x] \in {Persist} \cup (0..TYPING_EXPIRY)
    /\ \A u \in Users : userServerTtl[u] \in 0..SERVER_EXPIRY
    /\ \A u \in Users : (userServer[u] = 0) <=> (userServerTtl[u] = Absent)

\* ---- properties ----
Range(f) == {f[i] : i \in DOMAIN f}

\* the handler of the o-th client event has returned
Done(o) == o <= ops /\ \A t \in TaskIds : tasks[t].op # o

Emitted(o) == events[o] # NoEvent

\* the envelope of event o has been handed to Redis
Published(o) ==
    \E p \in Procs : o \in Range(bus[p]) \/ o \in relayed[p] \/ o \in dropped[p]

RecordsOf(m, u) == {i \in DOMAIN messages[m].status : messages[m].status[i].userId = u}

\* C1: the subscriber of process P never re-emits an envelope whose origin is
\* P itself; it discards it, so P emits its own event only at publish time.
C1_LoopAvoidance ==
    \A p \in Procs :
        /\ \A e \in relayed[p] : events[e].serverId # p
        /\ \A e \in 1..MaxOps :
               (Emitted(e) /\ events[e].serverId = p /\ e \notin Range(bus[p])
                   /\ Published(e))
               => e \in dropped[p]

\* P has discarded the echo of an event that a local room member received once
C1_Witness ==
    \E p \in Procs, e \in 1..MaxOps, k \in Conns :
        /\ e \in dropped[p]
        /\ events[e].serverId = p
        /\ ProcOf(k) = p
        /\ inbox[k][e] = 1

\* C2: every envelope published by a process is eventually re-emitted by every
\* other process, and a connection that is in the room when a message has been
\* persisted eventually receives message:new for it unless it disconnects.
AboutToEmit(o, k) ==
    \E t \in TaskIds :
        /\ tasks[t].op = o
        /\ tasks[t].pc = "send_last"
        /\ conn[k].state = "open"
        /\ chatRoom(tasks[t].chat) \in conn[k].rooms

C2_CrossProcessDelivery ==
    /\ \A o \in 1..MaxOps, q \in Procs :
           (Published(o) /\ events[o].serverId # q) ~> (o \in relayed[q])
    /\ \A o \in 1..MaxOps, k \in Conns :
           AboutToEmit(o, k) ~> (inbox[k][o] >= 1 \/ conn[k].state = "closed")

\* a connection on a peer process got message:new through the peer's relay
C2_Witness ==
    \E o \in 1..MaxOps, k \in Conns :
        /\ events[o].name = "message:new"
        /\ ProcOf(k) # events[o].serverId
        /\ o \in relayed[ProcOf(k)]
        /\ inbox[k][o] >= 1

\* C3: no connection receives the same event instance more than once.
C3_NoDuplicate == \A k \in Conns, e \in 1..MaxOps : inbox[k][e] <= 1

\* C4: every message has exactly one DeliveryRecord per participant of its
\* chat, and a message is created with sent=true on the sender's record only
\* and delivered=false, read=false on every record.
OneRecordPerParticipant ==
    \A m \in DOMAIN messages :
        LET ps == chats[messages[m].chatId].participants IN
        /\ \A u \in Range(ps) : Cardinality(RecordsOf(m, u)) = 1
        /\ \A i \in DOMAIN messages[m].status :
               messages[m].status[i].userId \in Range(ps)

CreatedFresh ==
    Len(messages') = Len(messages) + 1 =>
        LET new == messages'[Len(messages')] IN
        \A i \in DOMAIN new.status :
            /\ new.status[i].isSent = (new.status[i].userId = new.senderId)
            /\ ~new.status[i].isDelivered
            /\ ~new.status[i].isRead

C4_DeliveryRecords == []OneRecordPerParticipant /\ [][CreatedFresh]_vars

\* a message:send by a participant of a stored chat has been persisted
C4_Witness ==
    \E o \in 1..MaxOps :
        /\ reqs[o].kind = "send"
        /\ o \in wrote
        /\ events[o].mid \in DOMAIN messages
        /\ Cardinality(RecordsOf(events[o].mid, events[o].userId)) = 1
        /\ Len(messages[events[o].mid].status) >= 2

\* C9: the store update of join:chat(c) by user j marks every undelivered
\* record of another user, in every message of c, delivered with deliveredAt
\* set, and leaves the delivered records as they are.
JoinMarksOthers(t) ==
    \A m \in DOMAIN messages :
        messages[m].chatId = tasks[t].chat =>
            \A i \in DOMAIN messages[m].status :
                LET old == messages[m].status[i]
                    new == messages'[m].status[i]
                IN  /\ (old.userId # UserOf(t) /\ ~old.isDelivered)
                           => (new.isDelivered /\ new.deliveredAt # NoDate)
                    /\ old.isDelivered
                           => (new.isDelivered /\ new.deliveredAt = old.deliveredAt)

C9_JoinDelivers ==
    [][\A t \in TaskIds :
          (tasks[t].pc = "join_update" /\ tasks'[t].pc # "join_update")
              => JoinMarksOthers(t)]_vars

\* C10: once join:chat(c) of participant B has been handled, B's own record
\* on every message that another user sent to c is delivered.
C10_JoinerDelivered ==
    \A o \in 1..MaxOps :
        (reqs[o].kind = "join" /\ Done(o)) =>
            \A m \in DOMAIN messages :
                (/\ messages[m].chatId = reqs[o].chat
                 /\ messages[m].senderId # conn[reqs[o].conn].userId) =>
                    \A i \in RecordsOf(m, conn[reqs[o].conn].userId) :
                        messages[m].status[i].isDelivered

\* ---- read receipts ----
IsReadBy(m, u) ==
    \E i \in DOMAIN messages[m].status :
        messages[m].status[i].userId = u /\ messages[m].status[i].isRead

Observed(o) ==
    \/ \E k \in Conns : inbox[k][o] > 0
    \/ \E p \in Procs : \E i \in DOMAIN adapterQ[p] : adapterQ[p][i].ev = o

\* C5: an event is emitted only after the durable write of its handler has
\* completed and is published only after it has been emitted; whoever sees
\* message:new finds the message in the store, and whoever sees message:read
\* for a record finds that record read in the store.
C5_PersistEmitPublish ==
    \A o \in 1..MaxOps :
        /\ (Emitted(o) \/ Observed(o)) => o \in wrote
        /\ Published(o) => Emitted(o)
        /\ events[o].name = "message:new" =>
               /\ events[o].mid \in DOMAIN messages
               /\ chats[messages[events[o].mid].chatId].lastMessage # 0
        /\ (events[o].name = "message:read" /\ events[o].mid \in DOMAIN messages) =>
               \A i \in RecordsOf(events[o].mid, events[o].userId) :
                   messages[events[o].mid].status[i].isRead

\* a room member has received a read receipt that has also been published
C5_Witness ==
    \E o \in 1..MaxOps, k \in Conns :
        /\ events[o].name = "message:read"
        /\ inbox[k][o] >= 1
        /\ Published(o)
        /\ IsReadBy(events[o].mid, events[o].userId)

\* a message:read handler of a user who has a record on the stored message
ReadTask(t) ==
    /\ tasks[t].kind = "read"
    /\ tasks[t].mid \in DOMAIN messages
    /\ RecordsOf(tasks[t].mid, UserOf(t)) # {}

\* C6: message:read on a record that is not read yet sets read=true and
\* readAt on it; message:read on a record that is already read returns with
\* the whole message unchanged.
ReadIdempotentStep(t) ==
    ReadTask(t) =>
        /\ (tasks[t].pc = "read_find" /\ tasks'[t] # tasks[t]
                /\ ~IsReadBy(tasks[t].mid, UserOf(t)))
               => tasks'[t].pc = "read_update"
        /\ (tasks[t].pc = "read_update" /\ tasks'[t] # tasks[t])
               => \A i \in RecordsOf(tasks[t].mid, UserOf(t)) :
                      /\ messages'[tasks[t].mid].status[i].isRead
                      /\ messages'[tasks[t].mid].status[i].readAt # NoDate
        /\ (tasks[t].pc = "read_find" /\ tasks'[t] # tasks[t]
                /\ IsReadBy(tasks[t].mid, UserOf(t)))
               => (tasks'[t] = NoTask /\ messages' = messages)

C6_ReadIdempotent == [][\A t \in TaskIds : ReadIdempotentStep(t)]_vars

\* two message:read of the same user for the same message have been handled
\* and the record carries the date of the first
C6_Witness ==
    \E o1 \in 1..MaxOps, o2 \in 1..MaxOps :
        /\ o1 < o2 /\ Done(o1) /\ Done(o2)
        /\ reqs[o1].kind = "read" /\ reqs[o2].kind = "read"
        /\ reqs[o1].mid = reqs[o2].mid
        /\ reqs[o1].mid \in DOMAIN messages
        /\ conn[reqs[o1].conn].userId = conn[reqs[o2].conn].userId
        /\ \E i \in RecordsOf(reqs[o1].mid, conn[reqs[o1].conn].userId) :
               /\ messages[reqs[o1].mid].status[i].isRead
               /\ messages[reqs[o1].mid].status[i].readAt = o1

\* C7: message:read on a record that is already read emits nothing to the
\* room, publishes nothing and writes nothing to the store.
SilentOnAlreadyRead(t) ==
    (ReadTask(t) /\ tasks[t].pc = "read_find" /\ tasks'[t] # tasks[t]
        /\ IsReadBy(tasks[t].mid, UserOf(t)))
    => /\ tasks'[t] = NoTask
       /\ UNCHANGED <<events, inbox, adapterQ, bus, messages, chats, wrote>>

C7_NoReceiptWhenRead == [][\A t \in TaskIds : SilentOnAlreadyRead(t)]_vars

\* a message:read found its record already read and has returned silently
C7_Witness ==
    \E o \in 1..MaxOps :
        /\ reqs[o].kind = "read" /\ Done(o)
        /\ reqs[o].mid \in DOMAIN messages
        /\ \E i \in RecordsOf(reqs[o].mid, conn[reqs[o].conn].userId) :
               /\ messages[reqs[o].mid].status[i].isRead
               /\ messages[reqs[o].mid].status[i].readAt \notin {NoDate, o}
        /\ ~Emitted(o) /\ ~Published(o) /\ o \notin wrote

\* C8: messages:read emits a messages:read event only when at least one
\* record changed from read=false to read=true.
BulkEmitsOnlyOnChange(t) ==
    (/\ tasks[t].pc = "bulk_update"
     /\ tasks'[t] # tasks[t]
     /\ events'[tasks[t].op] # NoEvent)
    => \E m \in DOMAIN messages : \E i \in DOMAIN messages[m].status :
           ~messages[m].status[i].isRead /\ messages'[m].status[i].isRead

C8_BulkNoOp == [][\A t \in TaskIds : BulkEmitsOnlyOnChange(t)]_vars

\* ---- typing flags ----
\* C11: a typing flag that typing:start has set and that nothing stops
\* explicitly is absent once 5 seconds have passed since the latest
\* typing:start, and every flag that exists is eventually absent.
C11_TypingExpires ==
    /\ [](\A x \in TypingKeys :
             sinceTyping[x] >= TYPING_EXPIRY => typing[x] = Absent)
    /\ \A x \in TypingKeys : (typing[x] # Absent) ~> (typing[x] = Absent)

\* a flag set by typing:start has gone although no typing:stop and no
\* disconnect was ever requested
C11_Witness ==
    \E o \in 1..MaxOps :
        /\ reqs[o].kind = "typing_start"
        /\ Done(o)
        /\ Emitted(o)
        /\ typing[<<events[o].userId, reqs[o].chat>>] = Absent
        /\ sinceTyping[<<events[o].userId, reqs[o].chat>>] = TYPING_EXPIRY
        /\ \A q \in 1..MaxOps : reqs[q].kind \notin {"typing_stop", "disconnect"}

\* C12: a typing flag never exists without an expiry of at most 5 seconds;
\* every typing:start leaves it with the full 5 seconds, and typing:stop
\* leaves it absent.
TypingStartResets(t) ==
    (tasks[t].pc = "typing_set" /\ events'[tasks[t].op] # NoEvent)
        => typing'[<<UserOf(t), tasks[t].chat>>] = TYPING_EXPIRY

TypingStopDeletes(t) ==
    (tasks[t].pc = "typing_del" /\ events'[tasks[t].op] # NoEvent)
        => typing'[<<UserOf(t), tasks[t].chat>>] = Absent

C12_TypingTtl ==
    /\ [](\A x \in TypingKeys : typing[x] \in 0..TYPING_EXPIRY)
    /\ [][\A t \in TaskIds : TypingStartResets(t) /\ TypingStopDeletes(t)]_vars

\* typing:start was handled twice for one flag, time has passed since the
\* user connected, and the flag has its full lifetime
C12_Witness ==
    \E o1 \in 1..MaxOps, o2 \in 1..MaxOps :
        /\ o1 < o2 /\ Done(o1) /\ Done(o2)
        /\ reqs[o1].kind = "typing_start" /\ reqs[o2].kind = "typing_start"
        /\ reqs[o1].chat = reqs[o2].chat
        /\ events[o1].userId = events[o2].userId
        /\ sinceConnect[events[o2].userId] > 0
        /\ typing[<<events[o2].userId, reqs[o2].chat>>] = TYPING_EXPIRY

\* ---- error handling ----
\* C13: message:read by a user who has no DeliveryRecord on the message is
\* answered with an error event to the requesting connection; no
\* message:read is emitted or published and the message stays unchanged.
C13_ReadWithoutRecord ==
    \A o \in 1..MaxOps :
        (/\ reqs[o].kind = "read"
         /\ Done(o)
         /\ reqs[o].mid \in DOMAIN messages
         /\ RecordsOf(reqs[o].mid, conn[reqs[o].conn].userId) = {})
        => /\ outcome[o].error
           /\ ~Emitted(o)
           /\ ~Published(o)

\* C14: message:send naming a chat that does not exist and message:read
\* naming a message that does not exist send message:error to the originating
\* connection only and change nothing else: no message, no last-message
\* pointer, no cache entry, no emission to a room, no envelope.
NotFoundStep(t) ==
    \/ /\ tasks[t].pc = "send_find"
       /\ ~chats[tasks[t].chat].exists
    \/ /\ tasks[t].pc = "read_find"
       /\ tasks[t].mid \notin DOMAIN messages

ErrorToOriginOnly(t) ==
    (NotFoundStep(t) /\ tasks'[t] # tasks[t]) =>
        /\ tasks'[t] = NoTask
        /\ \A k \in Conns :
               /\ inbox'[k][0] = inbox[k][0]
                      + (IF k = tasks[t].conn /\ conn[k].state = "open"
                         THEN 1 ELSE 0)
               /\ \A e \in 1..MaxOps : inbox'[k][e] = inbox[k][e]
        /\ UNCHANGED <<messages, chats, recent, events, adapterQ, bus, wrote,
                       online>>

C14_NotFound == [][\A t \in TaskIds : ErrorToOriginOnly(t)]_vars

\* a message:send to a chat that does not exist has been answered with one
\* message:error while another open connection received none
C14_Witness ==
    \E o \in 1..MaxOps, k \in Conns :
        /\ reqs[o].kind = "send"
        /\ ~chats[reqs[o].chat].exists
        /\ Done(o)
        /\ outcome[o].error
        /\ inbox[reqs[o].conn][0] = 1
        /\ k # reqs[o].conn
        /\ conn[k].state = "open"
        /\ inbox[k][0] = 0

\* C15: when Message.create or the last-message update fails during
\* message:send, message:error goes to the sending connection and to no
\* other, no message:new is emitted, no envelope is published, and every
\* connection and every other handler is left as it was.
CreateFailureContained(t) ==
    (/\ tasks[t].pc \in {"send_create", "send_last"}
     /\ outcome[tasks[t].op].fault = "none"
     /\ outcome'[tasks[t].op].fault \in {"create", "last"}) =>
        /\ tasks'[t] = NoTask
        /\ \A s \in TaskIds \ {t} : tasks'[s] = tasks[s]
        /\ \A k \in Conns :
               /\ inbox'[k][0] = inbox[k][0]
                      + (IF k = tasks[t].conn /\ conn[k].state = "open"
                         THEN 1 ELSE 0)
               /\ \A e \in 1..MaxOps : inbox'[k][e] = inbox[k][e]
        /\ UNCHANGED <<messages, events, adapterQ, bus, conn, alive>>

C15_PersistFailure == [][\A t \in TaskIds : CreateFailureContained(t)]_vars

\* a message:send failed at Message.create and was answered with
\* message:error; later a message:send of another connection went through
C15_Witness ==
    \E o1 \in 1..MaxOps, o2 \in 1..MaxOps :
        /\ o1 < o2
        /\ reqs[o1].kind = "send" /\ Done(o1)
        /\ outcome[o1].fault = "create" /\ outcome[o1].error
        /\ ~Emitted(o1)
        /\ reqs[o2].kind = "send" /\ reqs[o2].conn # reqs[o1].conn
        /\ inbox[reqs[o2].conn][0] = 0
        /\ Emitted(o2) /\ Published(o2)

\* C16: a message:send that has been handled either persisted the message
\* and broadcast message:new without any message:error, or answered with
\* message:error without persisting and without broadcasting.
Persisted(o) == outcome[o].mid # 0

C16_SendOutcome ==
    \A o \in 1..MaxOps :
        (reqs[o].kind = "send" /\ Done(o) /\ alive[ProcOf(reqs[o].conn)]) =>
            \/ Persisted(o) /\ Emitted(o) /\ ~outcome[o].error
            \/ outcome[o].error /\ ~Persisted(o) /\ ~Emitted(o)

\* C17: a handler whose publish failed has reported the failure to the
\* originating connection, and that connection is still open.
C17_PublishFailureReported ==
    \A o \in 1..MaxOps :
        (/\ outcome[o].fault = "publish"
         /\ Done(o)
         /\ alive[ProcOf(reqs[o].conn)])
        => /\ outcome[o].error
           /\ conn[reqs[o].conn].state = "open"

\* C18: a failure inside a handler neither closes the connection whose
\* event it handled nor ends the process.
C18_FailureContained ==
    \A o \in 1..MaxOps :
        outcome[o].fault # "none" =>
            /\ alive[ProcOf(reqs[o].conn)]
            /\ conn[reqs[o].conn].state = "open"

\* ---- presence ----
\* C19: when the disconnect handler of a connection returns, then for every
\* room the connection had joined the user's online marker and typing flag
\* are deleted and user:left has been emitted, and the user's server pointer
\* is deleted.
DisconnectCleans(t) ==
    (/\ tasks[t].kind = "disconnect"
     /\ tasks'[t] = NoTask
     /\ outcome'[tasks[t].op].fault = "none"
     /\ alive'[ServerOf(t)]) =>
        /\ userServer'[UserOf(t)] = 0
        /\ \A c \in conn[tasks[t].conn].left :
               /\ <<UserOf(t), c>> \notin online'
               /\ typing'[<<UserOf(t), c>>] = Absent
               /\ events'[tasks[t].op].name = "user:left"

C19_DisconnectCleanup == [][\A t \in TaskIds : DisconnectCleans(t)]_vars

\* C20: while user u has a live connection, within one hour of its latest
\* connect, the server pointer of u exists and names a process that hosts a
\* live connection of u; when u has no live connection the pointer is
\* absent.  Both are asked only while no disconnect handler of u is running.
Live(u) == {k \in Conns : conn[k].state = "open" /\ conn[k].userId = u}

Disconnecting(u) ==
    \E t \in TaskIds : tasks[t].kind = "disconnect" /\ UserOf(t) = u

C20_PresencePointer ==
    \A u \in Users :
        /\ (Live(u) # {} /\ sinceConnect[u] < SERVER_EXPIRY /\ ~Disconnecting(u))
               => userServer[u] \in {ProcOf(k) : k \in Live(u)}
        /\ (Live(u) = {} /\ ~Disconnecting(u)) => userServer[u] = 0

\* the server state a handshake could touch: everything but the connection's
\* own entry and the record of the token it carried
serverState ==
    <<messages, chats, online, userServer, userServerTtl, sinceConnect,
      typing, sinceTyping, outcome, tasks, bus, adapterQ, inbox, events,
      wrote, recent, relayed, dropped, reqs, ops, http>>

\* the token was signed by the server for one of its users
Authentic(token) == token[1] = "valid" /\ token[2] \in Users

\* C21: a handshake that carries no token or a token the server did not sign
\* is refused and changes no server state (no room, no presence pointer, no
\* handler); a connection that reaches handleConnection carries the user id
\* of an authentic token.
C21_AuthenticatedOnly ==
    [][\A k \in Conns :
          (conn[k].state = "new" /\ conn'[k].state # "new")
          => IF Authentic(handshake'[k])
             THEN /\ conn'[k].state = "open"
                  /\ conn'[k].userId = handshake'[k][2]
             ELSE /\ conn'[k].state = "refused"
                  /\ conn'[k].userId = 0
                  /\ conn'[k].rooms = {}
                  /\ \A j \in Conns \ {k} : conn'[j] = conn[j]
                  /\ UNCHANGED serverState]_vars

\* one handshake with a forged token was refused while a user with an
\* authentic token is connected and has joined a chat
C21_Witness ==
    \E k, j \in Conns :
        /\ conn[k].state = "refused"
        /\ handshake[k][1] = "forged"
        /\ conn[j].state = "open"
        /\ Authentic(handshake[j])
        /\ chatRoom(1) \in conn[j].rooms

\* C22: in every reachable state every delivery record of every message
\* satisfies read => delivered and delivered => sent.
C22_StatusOrder ==
    \A m \in DOMAIN messages :
        \A i \in DOMAIN messages[m].status :
            LET r == messages[m].status[i]
            IN /\ r.isRead => r.isDelivered
               /\ r.isDelivered => r.isSent

\* the users of a chat
Members(c) == {chats[c].participants[i] : i \in DOMAIN chats[c].participants}

\* the users of the chat as the next state has it
MembersNext(c) == {chats'[c].participants[i] : i \in DOMAIN chats'[c].participants}

\* the users a request asks a chat for: the ids of its body and the requester
Asked(req) ==
    {req.body.participants[i][1] : i \in DOMAIN req.body.participants}
        \cup {req.userId}

\* the body spells every id the way the server prints ids
Plain(req) ==
    \A i \in DOMAIN req.body.participants : req.body.participants[i][2] = "lower"

\* the one-on-one chats of users a and b
OneOnOne(a, b) ==
    {c \in ChatIds : chats[c].exists /\ ~chats[c].isGroupChat /\ Members(c) = {a, b}}

\* request r gets its response in this step
Responds(r) == http[r].pc # "done" /\ http'[r].pc = "done"

\* C23: requests one after the other, ids spelled as the server prints
\* them.  A one-on-one request for two users
\* who already have a one-on-one chat is answered with the id of that chat
\* and creates nothing, whichever of the two asks; a request for two users
\* without one is answered with the id of the chat it created, so two users
\* never have two one-on-one chats.
C23_SameChatTwice ==
    [][\A r \in ReqIds, a, b \in Users :
          (/\ Responds(r)
           /\ a # b
           /\ http'[r].userId \in {a, b}
           /\ http'[r].body.isArray
           /\ ~http'[r].body.isGroupChat
           /\ Plain(http'[r])
           /\ Asked(http'[r]) = {a, b})
          => /\ http'[r].status \in {200, 201}
             /\ http'[r].chat \in ChatIds
             /\ chats'[http'[r].chat].exists
             /\ ~chats'[http'[r].chat].isGroupChat
             /\ MembersNext(http'[r].chat) = {a, b}
             /\ \A c \in ChatIds :
                    (chats'[c].exists /\ ~chats'[c].isGroupChat
                        /\ MembersNext(c) = {a, b})
                    => c = http'[r].chat
             /\ (\E c \in http'[r].before :
                    ~chats[c].isGroupChat /\ Members(c) = {a, b})
                => /\ http'[r].status = 200
                   /\ http'[r].chat \in http'[r].before
                   /\ {c \in ChatIds : chats'[c].exists} = http'[r].before]_vars

\* a user asks for a one-on-one chat with the user who created that very chat
\* by an earlier request, and is answered with its id
C23_Witness ==
    \E r \in ReqIds, a, b \in Users :
        /\ a # b
        /\ http[r].pc = "done"
        /\ http[r].status = 200
        /\ http[r].userId = a
        /\ http[r].body.participants = <<<<b, "lower">>>>
        /\ chats[http[r].chat].participants = <<a, b>>
        /\ OneOnOne(a, b) = {http[r].chat}

\* request r is answered with a chat: a new one or one that existed
Accepted(req) == req.status \in {200, 201}

\* C24: the participant-count rules hold for the users a request names, the
\* requester included and every user counted once: a one-on-one request is
\* accepted only for exactly 2 users, a group request for fewer than 3 users
\* is rejected and a named one for 3 or more is accepted; a rejected request
\* creates no chat.
C24_ParticipantCount ==
    [][\A r \in ReqIds :
          (Responds(r) /\ http'[r].userId # 0 /\ http'[r].body.isArray)
          => LET req == http'[r]
                 n == Cardinality(Asked(req))
             IN /\ (~req.body.isGroupChat /\ Accepted(req)) => n = 2
                /\ (req.body.isGroupChat /\ n < 3) => req.status = 400
                /\ (req.body.isGroupChat /\ req.body.name /\ n >= 3)
                       => req.status = 201
                /\ req.status = 400
                       => {c \in ChatIds : chats'[c].exists} = req.before]_vars

\* C25: every chat createChat has created has pairwise different
\* participants, exactly one settings record {userId, isMuted = false,
\* unreadCount = 0} per participant, and admins that are participants and
\* that only a group chat has.
C25_CreatedChatShape ==
    \A c \in ChatIds :
        chats[c].exists
        => LET ch == chats[c] IN
           /\ \A i, j \in DOMAIN ch.participants :
                  ch.participants[i] = ch.participants[j] => i = j
           /\ \A u \in Members(c) :
                  /\ Cardinality({i \in DOMAIN ch.userSpecificSettings :
                                     ch.userSpecificSettings[i].userId = u}) = 1
                  /\ \A i \in DOMAIN ch.userSpecificSettings :
                         ch.userSpecificSettings[i].userId = u
                         => /\ ~ch.userSpecificSettings[i].isMuted
                            /\ ch.userSpecificSettings[i].unreadCount = 0
           /\ \A i \in DOMAIN ch.userSpecificSettings :
                  ch.userSpecificSettings[i].userId \in Members(c)
           /\ \A i \in DOMAIN ch.groupAdmins : ch.groupAdmins[i] \in Members(c)
           /\ ch.groupAdmins # <<>> => ch.isGroupChat

\* C26: a process has a client connection only if its connection to the
\* store and its publish and subscribe connections to the bus were
\* established when it started to listen.
C26_ConnectedBeforeListening ==
    \A k \in Conns :
        conn[k].state = "open"
        => /\ boot[ProcOf(k)].store
           /\ boot[ProcOf(k)].bus
           /\ boot[ProcOf(k)].subscribed

\* the largest bound a run can put to the test: with MaxOps client events a
\* cache that is bounded at all never grows beyond MaxOps entries
CacheBound == MaxOps

\* C27: the recent-message cache of a chat is bounded: whatever is sent, it
\* never holds more than CacheBound entries.
C27_CacheBounded ==
    \A c \in ChatIds : Cardinality(recent[c]) <= CacheBound

\* the channel the taxonomy gives to an event
Designated(name) ==
    CASE name = "message:new" -> "chat:messages"
      [] name = "typing:update" -> "chat:typing"
      [] name \in {"message:read", "messages:read"} -> "chat:status"
      [] name \in {"user:joined", "user:left"} -> "chat:user_events"
      [] OTHER -> "none"

\* C28: every process that listens has subscribed to the four channels
\* messages, typing, status and user_events, and every event is published on
\* its designated channel, which the peers are subscribed to: message:new on
\* messages, typing:update on typing, message:read and messages:read on
\* status, user:joined and user:left on user_events.
C28_Channels ==
    /\ \A p \in Procs :
          (alive[p] /\ boot[p].phase = "listening")
          => /\ boot[p].subscribed
             /\ {"chat:messages", "chat:typing", "chat:status",
                 "chat:user_events"} \subseteq subscriptions
    /\ \A o \in 1..MaxOps :
          outcome[o].channel # "none"
          => /\ outcome[o].envelope.event = events[o].name
             /\ outcome[o].channel = Designated(events[o].name)
             /\ outcome[o].channel \in subscriptions

\* a message:new went out on the channel of the messages and the
\* message:read that answered it on the channel of the status
C28_Witness ==
    \E o1, o2 \in 1..MaxOps :
        /\ events[o1].name = "message:new"
        /\ outcome[o1].channel = "chat:messages"
        /\ events[o2].name = "message:read"
        /\ outcome[o2].channel = "chat:status"
        /\ \E p \in Procs : o2 \in relayed[p]

\* the update of a message:read of a user with a record goes through
ReadSucceeds(t) ==
    ReadTask(t) /\ tasks[t].pc = "read_update" /\ tasks'[t].pc = "publish"

\* record r as it was but for its read flag and its read date
SaveRead(r, old) == [r EXCEPT !.isRead = old.isRead, !.readAt = old.readAt]

\* C29: a successful message:read by user u on message m changes only
\* isRead and readAt of u's record on m: the other records of m, the other
\* fields of u's record, the chat and the sender of m, every other message
\* and the chats stay as they were.
C29_ReadFrame ==
    [][\A t \in TaskIds :
          ReadSucceeds(t)
          => LET m == tasks[t].mid
                 u == UserOf(t)
             IN /\ DOMAIN messages' = DOMAIN messages
                /\ \A n \in DOMAIN messages \ {m} : messages'[n] = messages[n]
                /\ [messages'[m] EXCEPT !.status = messages[m].status]
                       = messages[m]
                /\ DOMAIN messages'[m].status = DOMAIN messages[m].status
                /\ \A i \in DOMAIN messages[m].status :
                       IF messages[m].status[i].userId = u
                       THEN SaveRead(messages'[m].status[i],
                                     messages[m].status[i])
                                = messages[m].status[i]
                       ELSE messages'[m].status[i] = messages[m].status[i]
                /\ chats' = chats]_vars

\* a message:read has marked the reader's record and the record of another
\* participant of the same message is still unread
C29_Witness ==
    \E o \in 1..MaxOps :
        /\ reqs[o].kind = "read"
        /\ o \in wrote
        /\ LET st == messages[reqs[o].mid].status
           IN \E i, j \in DOMAIN st :
                 /\ st[i].userId = events[o].userId
                 /\ st[i].isRead /\ st[i].readAt = o
                 /\ st[j].userId # events[o].userId
                 /\ ~st[j].isRead /\ st[j].readAt = NoDate

\* what a local emission hands to the clients besides the room and the name
PayloadOf(ev) == [f \in DOMAIN ev \ {"name", "room", "serverId"} |-> ev[f]]

\* C30: every published envelope carries the id of the process that
\* published it and the room, the event name and the payload of the emission
\* the same handler made locally, so what a peer re-emits is what the origin
\* emitted.
C30_EnvelopeMatchesEmission ==
    \A o \in 1..MaxOps :
        outcome[o].channel # "none"
        => LET env == outcome[o].envelope
           IN /\ env.serverId = ProcOf(reqs[o].conn)
              /\ env.serverId = events[o].serverId
              /\ env.room = events[o].room
              /\ env.event = events[o].name
              /\ env.payload = PayloadOf(events[o])

\* a peer has re-emitted a typing:update to a member of the chat room on it
C30_Witness ==
    \E o \in 1..MaxOps, p \in Procs, k \in Conns :
        /\ o \in relayed[p]
        /\ outcome[o].envelope.serverId # p
        /\ outcome[o].envelope.event = "typing:update"
        /\ outcome[o].envelope.payload.userId = 1
        /\ ProcOf(k) = p
        /\ outcome[o].envelope.room \in conn[k].rooms
        /\ inbox[k][o] >= 1

\* ---- delivery state over time ----
Grows(old, new) ==
    /\ (old.isSent => new.isSent)
    /\ (old.isDelivered => new.isDelivered)
    /\ (old.isRead => new.isRead)
    /\ (old.deliveredAt # NoDate => new.deliveredAt # NoDate)
    /\ (old.readAt # NoDate => new.readAt # NoDate)

\* C31: no step takes a message or one of its delivery records away, sets a
\* sent, delivered or read flag back to false or clears a deliveredAt or
\* readAt that was set.
C31_Monotonic ==
    [][\A m \in DOMAIN messages :
          /\ m \in DOMAIN messages'
          /\ \A i \in DOMAIN messages[m].status :
                 /\ i \in DOMAIN messages'[m].status
                 /\ messages'[m].status[i].userId = messages[m].status[i].userId
                 /\ Grows(messages[m].status[i], messages'[m].status[i])]_vars

\* a record that a read and then a join have both written
C31_Witness ==
    \E m \in DOMAIN messages :
        \E i \in DOMAIN messages[m].status :
            LET r == messages[m].status[i]
            IN /\ r.isSent /\ r.isDelivered /\ r.isRead
               /\ r.readAt # NoDate
               /\ r.deliveredAt > r.readAt

\* ---- overlapping handlers ----
Sending(c) ==
    \E t \in DOMAIN tasks : tasks[t].kind = "send" /\ tasks[t].chat = c

MessagesOf(c) == {m \in DOMAIN messages : messages[m].chatId = c}

Latest(c) == CHOOSE m \in MessagesOf(c) : \A n \in MessagesOf(c) : n <= m

\* C32: when no message:send handler of a chat is in flight, the chat's
\* lastMessage is the message of the chat that was created last.
C32_LastMessage ==
    \A c \in ChatIds :
        (~Sending(c) /\ MessagesOf(c) # {}) => chats[c].lastMessage = Latest(c)

\* C33: of two message:send events that one connection emitted to the same
\* chat, the later one is not persisted unless the earlier one was persisted
\* before it.
C33_SenderOrder ==
    \A o1 \in 1..MaxOps, o2 \in 1..MaxOps :
        (/\ o1 < o2
         /\ reqs[o1].kind = "send" /\ reqs[o2].kind = "send"
         /\ reqs[o1].conn = reqs[o2].conn
         /\ reqs[o1].chat = reqs[o2].chat
         /\ outcome[o2].mid # 0)
        => (outcome[o1].mid # 0 /\ outcome[o1].mid < outcome[o2].mid)

ReadEvents(m, u) ==
    {o \in 1..MaxOps : /\ events[o].name = "message:read"
                       /\ events[o].mid = m
                       /\ events[o].userId = u}

\* C34: for a message and a user who has a delivery record in it, at most
\* one message:read event is ever emitted.
C34_OneReceipt ==
    \A m \in DOMAIN messages, u \in Users :
        HasRecord(messages[m].status, u) => Cardinality(ReadEvents(m, u)) <= 1

\* ---- online markers ----
Quiescent == \A t \in DOMAIN tasks : tasks[t].pc = "idle"

InRoom(u, c) == \E k \in Live(u) : chatRoom(c) \in conn[k].rooms

\* C35: when no handler is in flight, the online marker of a user and a chat
\* exists exactly when an open connection of the user is in the chat's room.
C35_OnlineMarker ==
    Quiescent => \A u \in Users, c \in ChatIds : (<<u, c>> \in online) <=> InRoom(u, c)

\* ---- direct messages ----
\* C36: sendToUser returns true exactly when the user has an open connection
\* on the calling process.
C36_DirectReturn ==
    [][\A p \in Procs, u \in Users :
          sendToUser(p, u)
          => (outcome'[ops'].returned = "true" <=> localMembers(p, userRoom(u)) # {})]_vars

\* ---- who may take part ----
ChatEvents == {"message:new", "message:read", "messages:read", "typing:update"}

\* C37: a connection has received an event of a chat only if its user is a
\* participant of the chat.
C37_RoomConfidential ==
    \A k \in Conns, e \in 1..MaxOps :
        (inbox[k][e] >= 1 /\ events[e].name \in ChatEvents)
        => \E c \in ChatIds : /\ events[e].room = chatRoom(c)
                              /\ conn[k].userId \in Members(c)

\* C38: every stored message was sent by a participant of its chat.
C38_SenderIsParticipant ==
    \A m \in DOMAIN messages :
        messages[m].senderId \in Members(messages[m].chatId)

\* C39: a read receipt about a stored message is emitted to the room of the
\* chat that the message belongs to.
C39_ReceiptRoom ==
    \A o \in 1..MaxOps :
        /\ (events[o].name = "message:read" /\ events[o].mid \in DOMAIN messages)
           => events[o].room = chatRoom(messages[events[o].mid].chatId)
        /\ events[o].name = "messages:read"
           => \A m \in events[o].ids \cap DOMAIN messages :
                  events[o].room = chatRoom(messages[m].chatId)

\* C40: no two one-on-one chats have the same participants.
C40_OneChatPerPair ==
    \A c \in ChatIds, d \in ChatIds :
        (/\ c # d
         /\ chats[c].exists /\ chats[d].exists
         /\ ~chats[c].isGroupChat /\ ~chats[d].isGroupChat)
        => Members(c) # Members(d)

====
